---- MODULE Spec2Model ----
(***************************************************************************)
(* Model of tlm_adjoint's binomial checkpointing schedules                 *)
(* (tlm_adjoint/binomial_checkpointing.py).                                *)
(*                                                                         *)
(* A schedule is a Python generator: every call of next() runs iter() from *)
(* the yield it was suspended at to the next yield.  The model has one     *)
(* action per such segment; pc names the yield the generator is suspended  *)
(* at, and emitted is the sequence of actions the schedule object has      *)
(* yielded so far.  An exception leaving the generator (or the             *)
(* constructor) puts the model in pc = "error" with exc naming it.         *)
(***************************************************************************)
EXTENDS Integers, Sequences, FiniteSets, TLC

\* ------------------------------------------------------------------ bounds

MaxN == 12
MaxRam == 3
MaxDisk == 2
MaxAdvanceN == 30
MaxAdvanceSnapshots == 10
MaxPeriod == 5
MaxBinomialSnapshots == 2
MaxTwoLevelN == 7
MaxSweeps == 2
MaxRequests == 3

\* allocate_snapshots' default weights (1.0, 1.0, 0.0), as integers
write_weight == 1
read_weight == 1
delete_weight == 0

Trajectories == {"maximum", "revolve"}
\* a trajectory argument that is neither of the two
TrajectoryArgs == Trajectories \cup {"other"}

\* ------------------------------------------------------------------ helpers

Min(a, b) == IF a <= b THEN a ELSE b
Max(a, b) == IF a >= b THEN a ELSE b

\* ------------------------------------------------------------------ n_advance

Return(v) == [exc |-> "none", value |-> v]
RaiseValue(e) == [exc |-> e, value |-> 0]

\* DiscardExcess without the lower limit of one snapshot
DiscardExcess_NoLowerLimit(n_, snapshots_) == Min(snapshots_, n_ - 1)

\* "Discard excess snapshots"
DiscardExcess(n_, snapshots_) == Max(Min(snapshots_, n_ - 1), 1)

\* FindT dividing b_s_t by t before multiplying by snapshots + t
RECURSIVE FindT_DivideFirst(_, _, _, _, _, _)
FindT_DivideFirst(n_, snapshots_, t, b_s_tm2, b_s_tm1, b_s_t) ==
    IF b_s_tm1 >= n_ \/ n_ > b_s_t
    THEN FindT_DivideFirst(n_, snapshots_, t + 1, b_s_tm1, b_s_t,
                           (b_s_t \div (t + 1)) * (snapshots_ + t + 1))
    ELSE [t |-> t, b_s_tm2 |-> b_s_tm2, b_s_tm1 |-> b_s_tm1, b_s_t |-> b_s_t]

\* The while loop: on entry t, b_s_tm2, b_s_tm1, b_s_t are the loop variables.
RECURSIVE FindT(_, _, _, _, _, _)
FindT(n_, snapshots_, t, b_s_tm2, b_s_tm1, b_s_t) ==
    IF b_s_tm1 >= n_ \/ n_ > b_s_t
    THEN FindT(n_, snapshots_, t + 1, b_s_tm1, b_s_t,
               (b_s_t * (snapshots_ + t + 1)) \div (t + 1))
    ELSE [t |-> t, b_s_tm2 |-> b_s_tm2, b_s_tm1 |-> b_s_tm1, b_s_t |-> b_s_t]

\* t and the betas of GW2000 equation (1), as the loop leaves them
Betas(n_, snapshots_) ==
    FindT(n_, snapshots_, 2, 1, snapshots_ + 1,
          ((snapshots_ + 1) * (snapshots_ + 2)) \div 2)

\* MaximumStep returning n - b_s_tm1 in its first case (b_s_tm2 left out)
MaximumStep_FirstCase(n_, snapshots_, b) ==
    LET t == b.t
        b_sm1_tm2 == (b.b_s_tm2 * snapshots_) \div (snapshots_ + t - 2)
        b_sm1_tm1 == (b.b_s_tm1 * snapshots_) \div (snapshots_ + t - 1)
        b_sm2_tm1 == (b_sm1_tm1 * (snapshots_ - 1)) \div (snapshots_ + t - 2)
    IN  IF n_ <= b.b_s_tm1 + b_sm1_tm2
        THEN n_ - b.b_s_tm1
        ELSE IF n_ <= b.b_s_tm1 + b_sm2_tm1 + b_sm1_tm2
        THEN b.b_s_tm2 + b_sm1_tm2
        ELSE IF n_ <= b.b_s_tm1 + b_sm1_tm1 + b_sm2_tm1
        THEN n_ - b_sm1_tm1 - b_sm2_tm1
        ELSE b.b_s_tm1

\* MaximumStep without its second case (the step b_s_tm2 + b_sm1_tm2)
MaximumStep_NoSecondCase(n_, snapshots_, b) ==
    LET t == b.t
        b_sm1_tm2 == (b.b_s_tm2 * snapshots_) \div (snapshots_ + t - 2)
        b_sm1_tm1 == (b.b_s_tm1 * snapshots_) \div (snapshots_ + t - 1)
        b_sm2_tm1 == (b_sm1_tm1 * (snapshots_ - 1)) \div (snapshots_ + t - 2)
    IN  IF n_ <= b.b_s_tm1 + b_sm1_tm2
        THEN n_ - b.b_s_tm1 + b.b_s_tm2
        ELSE IF n_ <= b.b_s_tm1 + b_sm1_tm1 + b_sm2_tm1
        THEN n_ - b_sm1_tm1 - b_sm2_tm1
        ELSE b.b_s_tm1

\* trajectory == "maximum"
MaximumStep(n_, snapshots_, b) ==
    LET t == b.t
        b_sm1_tm2 == (b.b_s_tm2 * snapshots_) \div (snapshots_ + t - 2)
        b_sm1_tm1 == (b.b_s_tm1 * snapshots_) \div (snapshots_ + t - 1)
        b_sm2_tm1 == (b_sm1_tm1 * (snapshots_ - 1)) \div (snapshots_ + t - 2)
    IN  IF n_ <= b.b_s_tm1 + b_sm1_tm2
        THEN n_ - b.b_s_tm1 + b.b_s_tm2
        ELSE IF n_ <= b.b_s_tm1 + b_sm2_tm1 + b_sm1_tm2
        THEN b.b_s_tm2 + b_sm1_tm2
        ELSE IF n_ <= b.b_s_tm1 + b_sm1_tm1 + b_sm2_tm1
        THEN n_ - b_sm1_tm1 - b_sm2_tm1
        ELSE b.b_s_tm1

\* RevolveStep returning b_s_t where it returns b_s_tm1
RevolveStep_WrongBeta(n_, snapshots_, b) ==
    LET t == b.t
        b_sm1_tm1 == (b.b_s_tm1 * snapshots_) \div (snapshots_ + t - 1)
        b_sm2_tm1 == (b_sm1_tm1 * (snapshots_ - 1)) \div (snapshots_ + t - 2)
    IN  IF n_ <= b.b_s_tm1 + b_sm2_tm1
        THEN b.b_s_tm2
        ELSE IF n_ < b.b_s_tm1 + b_sm1_tm1 + b_sm2_tm1
        THEN n_ - b_sm1_tm1 - b_sm2_tm1
        ELSE b.b_s_t

\* trajectory == "revolve"
RevolveStep(n_, snapshots_, b) ==
    LET t == b.t
        b_sm1_tm1 == (b.b_s_tm1 * snapshots_) \div (snapshots_ + t - 1)
        b_sm2_tm1 == (b_sm1_tm1 * (snapshots_ - 1)) \div (snapshots_ + t - 2)
    IN  IF n_ <= b.b_s_tm1 + b_sm2_tm1
        THEN b.b_s_tm2
        ELSE IF n_ < b.b_s_tm1 + b_sm1_tm1 + b_sm2_tm1
        THEN n_ - b_sm1_tm1 - b_sm2_tm1
        ELSE b.b_s_tm1

\* n_advance returning n, not n - 1, with a single snapshot
n_advance_MinimalStorageN(n_, snapshots_, trajectory_) ==
    IF n_ < 1 THEN RaiseValue("ValueError")
    ELSE IF snapshots_ <= 0 THEN RaiseValue("ValueError")
    ELSE LET s == DiscardExcess(n_, snapshots_)
         IN  IF s = 1 THEN Return(n_)
             ELSE IF s = n_ - 1 THEN Return(1)
             ELSE IF trajectory_ = "maximum"
             THEN Return(MaximumStep(n_, s, Betas(n_, s)))
             ELSE IF trajectory_ = "revolve"
             THEN Return(RevolveStep(n_, s, Betas(n_, s)))
             ELSE RaiseValue("ValueError")

\* n_advance testing snapshots < 0, so that snapshots = 0 is accepted
n_advance_ZeroSnapshots(n_, snapshots_, trajectory_) ==
    IF n_ < 1 THEN RaiseValue("ValueError")
    ELSE IF snapshots_ < 0 THEN RaiseValue("ValueError")
    ELSE LET s == DiscardExcess(n_, snapshots_)
         IN  IF s = 1 THEN Return(n_ - 1)
             ELSE IF s = n_ - 1 THEN Return(1)
             ELSE IF trajectory_ = "maximum"
             THEN Return(MaximumStep(n_, s, Betas(n_, s)))
             ELSE IF trajectory_ = "revolve"
             THEN Return(RevolveStep(n_, s, Betas(n_, s)))
             ELSE RaiseValue("ValueError")

n_advance(n_, snapshots_, trajectory_) ==
    IF n_ < 1 THEN RaiseValue("ValueError")
    ELSE IF snapshots_ <= 0 THEN RaiseValue("ValueError")
    ELSE LET s == DiscardExcess(n_, snapshots_)
         IN  IF s = 1 THEN Return(n_ - 1)
             ELSE IF s = n_ - 1 THEN Return(1)
             ELSE IF trajectory_ = "maximum"
             THEN Return(MaximumStep(n_, s, Betas(n_, s)))
             ELSE IF trajectory_ = "revolve"
             THEN Return(RevolveStep(n_, s, Betas(n_, s)))
             ELSE RaiseValue("ValueError")

\* ------------------------------------------------------------------ state

VARIABLES
    \* MultistageCheckpointSchedule fields
    max_n, snapshots_in_ram, snapshots_on_disk, keep_block_0_ics, trajectory,
    storage, n, r, snapshots, exhausted,
    \* the generator iter(): the yield it is suspended at, its local n0, and
    \* the exception that left it
    pc, n0, exc,
    \* the actions yielded so far by the current schedule object
    emitted,
    \* allocate_snapshots, while the constructor runs it: the arguments of the
    \* schedule under construction, snapshot_i and weights
    dry_run, req_in_ram, req_on_disk, req_keep, snapshot_i, weights,
    \* one call of n_advance
    na_n, na_snapshots, na_trajectory, na_result, na_pc,
    \* TwoLevelCheckpointSchedule: the arguments disk_period and
    \* binomial_storage of the constructor, the fields it sets, and the local
    \* n0s of iter()
    req_period, req_storage, period, binomial_snapshots, binomial_storage, n0s,
    \* a Cache: its class, its fields _keys (an OrderedDict, as the sequence
    \* of its items) and _cache, the field _index of every CacheIndex created
    \* (in order of creation), and what the calls made on it returned
    cache_class, _keys, _cache, _index, returned

ctorVars == <<max_n, snapshots_in_ram, snapshots_on_disk, keep_block_0_ics,
              trajectory, storage, dry_run, req_in_ram, req_on_disk, req_keep>>
naVars == <<na_n, na_snapshots, na_trajectory, na_result, na_pc>>
tlFields == <<req_period, req_storage, period, binomial_snapshots,
              binomial_storage>>
tlVars == <<tlFields, n0s>>
cacheVars == <<cache_class, _keys, _cache, _index, returned>>
vars == <<max_n, snapshots_in_ram, snapshots_on_disk, keep_block_0_ics,
          trajectory, storage, n, r, snapshots, exhausted, pc, n0, exc,
          emitted, dry_run, req_in_ram, req_on_disk, req_keep, snapshot_i,
          weights, na_n, na_snapshots, na_trajectory, na_result, na_pc,
          req_period, req_storage, period, binomial_snapshots,
          binomial_storage, n0s, cache_class, _keys, _cache, _index,
          returned>>

\* ------------------------------------------------------------------ actions records

Clear(clear_ics, clear_data) == <<"Clear", clear_ics, clear_data>>
Configure(store_ics, store_data) == <<"Configure", store_ics, store_data>>
Forward(a, b) == <<"Forward", a, b>>
Reverse(a, b) == <<"Reverse", a, b>>
Read(step, st, delete) == <<"Read", step, st, delete>>
Write(step, st) == <<"Write", step, st>>
EndForward == <<"EndForward">>
EndReverse(e) == <<"EndReverse", e>>

\* ------------------------------------------------------------------ allocate_snapshots: the dispatch on a dry-run action

\* an exception raised by the code consuming the action just yielded
Raise(e) == pc' = "error" /\ exc' = e

\* action_read without snapshot_i -= 1 when the Read deletes
action_read_NoFree(cp_action, label) ==
    IF snapshot_i < 0
    THEN Raise("RuntimeError") /\ UNCHANGED <<snapshot_i, weights>>
    ELSE /\ pc' = label
         /\ exc' = exc
         /\ weights' = [weights EXCEPT ![snapshot_i] =
                @ + read_weight + (IF cp_action[4] THEN delete_weight ELSE 0)]
         /\ snapshot_i' = snapshot_i

action_read(cp_action, label) ==
    IF snapshot_i < 0
    THEN Raise("RuntimeError") /\ UNCHANGED <<snapshot_i, weights>>
    ELSE /\ pc' = label
         /\ exc' = exc
         /\ weights' = [weights EXCEPT ![snapshot_i] =
                @ + read_weight + (IF cp_action[4] THEN delete_weight ELSE 0)]
         /\ snapshot_i' = IF cp_action[4] THEN snapshot_i - 1 ELSE snapshot_i

action_write(cp_action, label) ==
    /\ snapshot_i' = snapshot_i + 1
    /\ IF snapshot_i + 1 >= req_in_ram + req_on_disk
       THEN Raise("RuntimeError") /\ UNCHANGED weights
       ELSE /\ pc' = label
            /\ exc' = exc
            /\ weights' = [weights EXCEPT ![snapshot_i + 1] = @ + write_weight]

action(cp_action, label) ==
    IF cp_action[1] = "Read" THEN action_read(cp_action, label)
    ELSE IF cp_action[1] = "Write" THEN action_write(cp_action, label)
    ELSE pc' = label /\ exc' = exc /\ UNCHANGED <<snapshot_i, weights>>

\* ------------------------------------------------------------------ the generator protocol

\* iter() yields cp_action and is suspended at label; during the constructor's
\* dry run allocate_snapshots consumes the action at once
Yield(cp_action, label) ==
    /\ emitted' = Append(emitted, cp_action)
    /\ IF dry_run
       THEN action(cp_action, label)
       ELSE pc' = label /\ exc' = exc /\ UNCHANGED <<snapshot_i, weights>>

\* an exception raised inside iter()
Fail(e) == Raise(e) /\ UNCHANGED <<emitted, snapshot_i, weights>>

\* ------------------------------------------------------------------ MultistageCheckpointSchedule

\* CheckpointSchedule.__init__(max_n): the cursors of a new schedule
CheckpointSchedule_init == [n |-> 0, r |-> 0]

\* Capacity counting one slot too many
Capacity_OneMore == snapshots_in_ram + snapshots_on_disk + 1

\* self._snapshots_in_ram + self._snapshots_on_disk
Capacity == snapshots_in_ram + snapshots_on_disk

\* n0 = self._n; n1 = n0 + n_advance(steps, budget); assert n1 > n0;
\* self._n = n1; yield Forward(n0, n1)
AdvanceAndForward(steps, budget, label) ==
    LET adv == n_advance(steps, budget, trajectory)
        n1 == n + adv.value
    IN  IF adv.exc # "none"
        THEN Fail(adv.exc) /\ UNCHANGED <<n, n0>>
        ELSE IF ~(n1 > n)
        THEN Fail("AssertionError") /\ UNCHANGED <<n, n0>>
        ELSE /\ n0' = n
             /\ n' = n1
             /\ Yield(Forward(n, n1), label)

\* _snapshot without self._snapshots.append(n): the stack stays as it is, and
\* the tier is read at index len(self._snapshots) - 1 of the unchanged stack
\* (Python's index -1, the last slot, when the stack is empty)
_snapshot_NoAppend(step, label) ==
    IF ~(step >= 0 /\ step < max_n)
    THEN Fail("AssertionError") /\ UNCHANGED snapshots
    ELSE IF Len(snapshots) >= Capacity
    THEN Fail("RuntimeError") /\ UNCHANGED snapshots
    ELSE /\ UNCHANGED snapshots
         /\ Yield(Write(step, storage[(Len(snapshots) - 1) % Capacity]), label)

\* _snapshot returning the tier of the slot below the one just filled
\* (Python's index -1, the last slot, for the first snapshot)
_snapshot_SlotBelow(step, label) ==
    IF ~(step >= 0 /\ step < max_n)
    THEN Fail("AssertionError") /\ UNCHANGED snapshots
    ELSE IF Len(snapshots) >= Capacity
    THEN Fail("RuntimeError") /\ UNCHANGED snapshots
    ELSE /\ snapshots' = Append(snapshots, step)
         /\ Yield(Write(step, storage[(Len(snapshots) - 1) % Capacity]), label)

\* cp_storage = self._snapshot(n0); yield Write(n0, cp_storage)
_snapshot(step, label) ==
    IF ~(step >= 0 /\ step < max_n)
    THEN Fail("AssertionError") /\ UNCHANGED snapshots
    ELSE IF Len(snapshots) >= Capacity
    THEN Fail("RuntimeError") /\ UNCHANGED snapshots
    ELSE /\ snapshots' = Append(snapshots, step)
         /\ IF Len(snapshots) \in DOMAIN storage
            THEN Yield(Write(step, storage[Len(snapshots)]), label)
            ELSE Fail("IndexError")

\* "Forward": the head of the forward loop, and what follows its exit
ForwardLoop ==
    /\ pc \in {"start", "fwd_Clear"}
    /\ IF n < max_n - 1
       THEN Yield(Configure(TRUE, FALSE), "fwd_Configure")
       ELSE IF n # max_n - 1
       THEN Fail("RuntimeError")
       ELSE Yield(Configure(keep_block_0_ics /\ n = 0, TRUE), "last_Configure")
    /\ UNCHANGED <<n, r, snapshots, exhausted, n0, ctorVars, naVars, tlVars, cacheVars>>

FwdForward ==
    /\ pc = "fwd_Configure"
    /\ AdvanceAndForward(max_n - n, Capacity - Len(snapshots), "fwd_Forward")
    /\ UNCHANGED <<r, snapshots, exhausted, ctorVars, naVars, tlVars, cacheVars>>

\* FwdWrite taking the snapshot at the step the Forward ended at
FwdWrite_AtCursor ==
    /\ pc = "fwd_Forward"
    /\ _snapshot(n, "fwd_Write")
    /\ UNCHANGED <<n, r, exhausted, n0, ctorVars, naVars, tlVars, cacheVars>>

FwdWrite ==
    /\ pc = "fwd_Forward"
    /\ _snapshot(n0, "fwd_Write")
    /\ UNCHANGED <<n, r, exhausted, n0, ctorVars, naVars, tlVars, cacheVars>>

FwdClear ==
    /\ pc = "fwd_Write"
    /\ Yield(Clear(TRUE, TRUE), "fwd_Clear")
    /\ UNCHANGED <<n, r, snapshots, exhausted, n0, ctorVars, naVars, tlVars, cacheVars>>

\* "Forward -> reverse"
LastForward ==
    /\ pc = "last_Configure"
    /\ n' = n + 1
    /\ Yield(Forward(n, n + 1), "last_Forward")
    /\ UNCHANGED <<r, snapshots, exhausted, n0, ctorVars, naVars, tlVars, cacheVars>>

YieldEndForward ==
    /\ pc = "last_Forward"
    /\ Yield(EndForward, "EndForward")
    /\ UNCHANGED <<n, r, snapshots, exhausted, n0, ctorVars, naVars, tlVars, cacheVars>>

\* FirstReverse without self._r += 1
FirstReverse_NoCount ==
    /\ pc = "EndForward"
    /\ Yield(Reverse(n, n - 1), "first_Reverse")
    /\ UNCHANGED <<n, r, snapshots, exhausted, n0, ctorVars, naVars, tlVars, cacheVars>>

FirstReverse ==
    /\ pc = "EndForward"
    /\ r' = r + 1
    /\ Yield(Reverse(n, n - 1), "first_Reverse")
    /\ UNCHANGED <<n, snapshots, exhausted, n0, ctorVars, naVars, tlVars, cacheVars>>

FirstClear ==
    /\ pc = "first_Reverse"
    /\ Yield(Clear(~keep_block_0_ics \/ n # 1, TRUE), "first_Clear")
    /\ UNCHANGED <<n, r, snapshots, exhausted, n0, ctorVars, naVars, tlVars, cacheVars>>

\* PopAndRead passing delete = False to Read
PopAndRead_NoDelete(cp_n, cp_storage) ==
    /\ snapshots' = SubSeq(snapshots, 1, Len(snapshots) - 1)
    /\ n' = cp_n
    /\ Yield(Read(cp_n, cp_storage, FALSE), "Read_delete")

\* PopAndRead without self._n = cp_n
PopAndRead_KeepCursor(cp_n, cp_storage) ==
    /\ snapshots' = SubSeq(snapshots, 1, Len(snapshots) - 1)
    /\ n' = n
    /\ Yield(Read(cp_n, cp_storage, TRUE), "Read_delete")

\* "Reverse": the snapshot on top of the stack is at the step needed next
PopAndRead(cp_n, cp_storage) ==
    /\ snapshots' = SubSeq(snapshots, 1, Len(snapshots) - 1)
    /\ n' = cp_n
    /\ Yield(Read(cp_n, cp_storage, TRUE), "Read_delete")

\* the snapshot on top of the stack is before the step needed next
ReadAndKeep(cp_n, cp_storage) ==
    /\ n' = cp_n
    /\ Yield(Read(cp_n, cp_storage, FALSE), "Read_keep")
    /\ UNCHANGED snapshots

\* ReverseLoop comparing the top snapshot with max_n - r, the step after the
\* one needed next
ReverseLoop_StepAfter ==
    /\ pc \in {"first_Clear", "adj_Clear"}
    /\ IF r < max_n
       THEN IF Len(snapshots) = 0
            THEN Fail("RuntimeError") /\ UNCHANGED <<n, snapshots, exhausted>>
            ELSE LET cp_n == snapshots[Len(snapshots)]
                     cp_storage == storage[Len(snapshots) - 1]
                 IN  /\ IF cp_n = max_n - r
                        THEN PopAndRead(cp_n, cp_storage)
                        ELSE ReadAndKeep(cp_n, cp_storage)
                     /\ UNCHANGED exhausted
       ELSE IF r # max_n
       THEN Fail("RuntimeError") /\ UNCHANGED <<n, snapshots, exhausted>>
       ELSE IF Len(snapshots) # 0
       THEN Fail("RuntimeError") /\ UNCHANGED <<n, snapshots, exhausted>>
       ELSE /\ exhausted' = TRUE
            /\ Yield(EndReverse(TRUE), "EndReverse")
            /\ UNCHANGED <<n, snapshots>>
    /\ UNCHANGED <<r, n0, ctorVars, naVars, tlVars, cacheVars>>

\* ReverseLoop without self._exhausted = True
ReverseLoop_NotExhausted ==
    /\ pc \in {"first_Clear", "adj_Clear"}
    /\ IF r < max_n
       THEN IF Len(snapshots) = 0
            THEN Fail("RuntimeError") /\ UNCHANGED <<n, snapshots, exhausted>>
            ELSE LET cp_n == snapshots[Len(snapshots)]
                     cp_storage == storage[Len(snapshots) - 1]
                 IN  /\ IF cp_n = max_n - r - 1
                        THEN PopAndRead(cp_n, cp_storage)
                        ELSE ReadAndKeep(cp_n, cp_storage)
                     /\ UNCHANGED exhausted
       ELSE IF r # max_n
       THEN Fail("RuntimeError") /\ UNCHANGED <<n, snapshots, exhausted>>
       ELSE IF Len(snapshots) # 0
       THEN Fail("RuntimeError") /\ UNCHANGED <<n, snapshots, exhausted>>
       ELSE /\ Yield(EndReverse(TRUE), "EndReverse")
            /\ UNCHANGED <<n, snapshots, exhausted>>
    /\ UNCHANGED <<r, n0, ctorVars, naVars, tlVars, cacheVars>>

\* the head of the reverse loop, and what follows its exit
ReverseLoop ==
    /\ pc \in {"first_Clear", "adj_Clear"}
    /\ IF r < max_n
       THEN IF Len(snapshots) = 0
            THEN Fail("RuntimeError") /\ UNCHANGED <<n, snapshots, exhausted>>
            ELSE LET cp_n == snapshots[Len(snapshots)]
                     cp_storage == storage[Len(snapshots) - 1]
                 IN  /\ IF cp_n = max_n - r - 1
                        THEN PopAndRead(cp_n, cp_storage)
                        ELSE ReadAndKeep(cp_n, cp_storage)
                     /\ UNCHANGED exhausted
       ELSE IF r # max_n
       THEN Fail("RuntimeError") /\ UNCHANGED <<n, snapshots, exhausted>>
       ELSE IF Len(snapshots) # 0
       THEN Fail("RuntimeError") /\ UNCHANGED <<n, snapshots, exhausted>>
       ELSE /\ exhausted' = TRUE
            /\ Yield(EndReverse(TRUE), "EndReverse")
            /\ UNCHANGED <<n, snapshots>>
    /\ UNCHANGED <<r, n0, ctorVars, naVars, tlVars, cacheVars>>

ReadDeleteClear ==
    /\ pc = "Read_delete"
    /\ Yield(Clear(TRUE, TRUE), "Read_delete_Clear")
    /\ UNCHANGED <<n, r, snapshots, exhausted, n0, ctorVars, naVars, tlVars, cacheVars>>

ReadKeepClear ==
    /\ pc = "Read_keep"
    /\ Yield(Clear(TRUE, TRUE), "Read_keep_Clear")
    /\ UNCHANGED <<n, r, snapshots, exhausted, n0, ctorVars, naVars, tlVars, cacheVars>>

\* RerunConfigure without its yield: the generator goes on to the Forward
\* under the configuration of the run before it
RerunConfigure_NoYield ==
    /\ pc = "Read_keep_Clear"
    /\ pc' = "rerun_Configure"
    /\ UNCHANGED <<emitted, exc, snapshot_i, weights>>
    /\ UNCHANGED <<n, r, snapshots, exhausted, n0, ctorVars, naVars, tlVars, cacheVars>>

RerunConfigure ==
    /\ pc = "Read_keep_Clear"
    /\ Yield(Configure(FALSE, FALSE), "rerun_Configure")
    /\ UNCHANGED <<n, r, snapshots, exhausted, n0, ctorVars, naVars, tlVars, cacheVars>>

\* the run after a Read with delete = False planned over max_n - n steps,
\* as if no adjoint step had been taken
RerunForward_WholeInterval ==
    /\ pc = "rerun_Configure"
    /\ AdvanceAndForward(max_n - n, Capacity - Len(snapshots) + 1,
                         "rerun_Forward")
    /\ UNCHANGED <<r, snapshots, exhausted, ctorVars, naVars, tlVars, cacheVars>>

\* RerunForward not counting the slot of the snapshot just read as available
RerunForward_NoSlotBack ==
    /\ pc = "rerun_Configure"
    /\ AdvanceAndForward(max_n - r - n, Capacity - Len(snapshots),
                         "rerun_Forward")
    /\ UNCHANGED <<r, snapshots, exhausted, ctorVars, naVars, tlVars, cacheVars>>

RerunForward ==
    /\ pc = "rerun_Configure"
    /\ AdvanceAndForward(max_n - r - n, Capacity - Len(snapshots) + 1,
                         "rerun_Forward")
    /\ UNCHANGED <<r, snapshots, exhausted, ctorVars, naVars, tlVars, cacheVars>>

RerunClear ==
    /\ pc = "rerun_Forward"
    /\ Yield(Clear(TRUE, TRUE), "rerun_Clear")
    /\ UNCHANGED <<n, r, snapshots, exhausted, n0, ctorVars, naVars, tlVars, cacheVars>>

\* yield Configure(self._keep_block_0_ics and self._n == 0, True)
AdjConfigure == Yield(Configure(keep_block_0_ics /\ n = 0, TRUE), "adj_Configure")

\* RewriteLoop running while self._n < self._max_n - self._r, one step past
\* the step needed next
RewriteLoop_OneFurther ==
    /\ pc \in {"rerun_Clear", "rewrite_Clear"}
    /\ IF n < max_n - r
       THEN Yield(Configure(TRUE, FALSE), "rewrite_Configure")
       ELSE IF n # max_n - r - 1
       THEN Fail("RuntimeError")
       ELSE AdjConfigure
    /\ UNCHANGED <<n, r, snapshots, exhausted, n0, ctorVars, naVars, tlVars, cacheVars>>

\* the head of the loop that advances to max_n - r - 1 writing snapshots, and
\* what follows its exit
RewriteLoop ==
    /\ pc \in {"rerun_Clear", "rewrite_Clear"}
    /\ IF n < max_n - r - 1
       THEN Yield(Configure(TRUE, FALSE), "rewrite_Configure")
       ELSE IF n # max_n - r - 1
       THEN Fail("RuntimeError")
       ELSE AdjConfigure
    /\ UNCHANGED <<n, r, snapshots, exhausted, n0, ctorVars, naVars, tlVars, cacheVars>>

RewriteForward ==
    /\ pc = "rewrite_Configure"
    /\ AdvanceAndForward(max_n - r - n, Capacity - Len(snapshots),
                         "rewrite_Forward")
    /\ UNCHANGED <<r, snapshots, exhausted, ctorVars, naVars, tlVars, cacheVars>>

RewriteWrite ==
    /\ pc = "rewrite_Forward"
    /\ _snapshot(n0, "rewrite_Write")
    /\ UNCHANGED <<n, r, exhausted, n0, ctorVars, naVars, tlVars, cacheVars>>

RewriteClear ==
    /\ pc = "rewrite_Write"
    /\ Yield(Clear(TRUE, TRUE), "rewrite_Clear")
    /\ UNCHANGED <<n, r, snapshots, exhausted, n0, ctorVars, naVars, tlVars, cacheVars>>

\* after Read(cp_n, cp_storage, True) and its Clear
AdjConfigureAfterRead ==
    /\ pc = "Read_delete_Clear"
    /\ AdjConfigure
    /\ UNCHANGED <<n, r, snapshots, exhausted, n0, ctorVars, naVars, tlVars, cacheVars>>

AdjForward ==
    /\ pc = "adj_Configure"
    /\ n' = n + 1
    /\ Yield(Forward(n, n + 1), "adj_Forward")
    /\ UNCHANGED <<r, snapshots, exhausted, n0, ctorVars, naVars, tlVars, cacheVars>>

\* AdjReverse without self._r += 1
AdjReverse_NoCount ==
    /\ pc = "adj_Forward"
    /\ Yield(Reverse(n, n - 1), "adj_Reverse")
    /\ UNCHANGED <<n, r, snapshots, exhausted, n0, ctorVars, naVars, tlVars, cacheVars>>

\* AdjReverse with the arguments of Reverse exchanged
AdjReverse_Swapped ==
    /\ pc = "adj_Forward"
    /\ r' = r + 1
    /\ Yield(Reverse(n - 1, n), "adj_Reverse")
    /\ UNCHANGED <<n, snapshots, exhausted, n0, ctorVars, naVars, tlVars, cacheVars>>

AdjReverse ==
    /\ pc = "adj_Forward"
    /\ r' = r + 1
    /\ Yield(Reverse(n, n - 1), "adj_Reverse")
    /\ UNCHANGED <<n, snapshots, exhausted, n0, ctorVars, naVars, tlVars, cacheVars>>

\* AdjClear clearing the initial conditions after every Reverse
AdjClear_AlwaysIcs ==
    /\ pc = "adj_Reverse"
    /\ Yield(Clear(TRUE, TRUE), "adj_Clear")
    /\ UNCHANGED <<n, r, snapshots, exhausted, n0, ctorVars, naVars, tlVars, cacheVars>>

AdjClear ==
    /\ pc = "adj_Reverse"
    /\ Yield(Clear(~keep_block_0_ics \/ n # 1, TRUE), "adj_Clear")
    /\ UNCHANGED <<n, r, snapshots, exhausted, n0, ctorVars, naVars, tlVars, cacheVars>>

\* ------------------------------------------------------------------ construction

\* the tiers the constructor sets without a dry run
UniformStorage(k, st) == [i \in 0 .. k - 1 |-> st]

\* Allocation with a sort that puts the later of two equal weights first
Allocation_TiesToLater(w, in_ram) ==
    [i \in DOMAIN w |->
        IF Cardinality({j \in DOMAIN w :
                            w[j] > w[i] \/ (w[j] = w[i] /\ j > i)}) < in_ram
        THEN "RAM" ELSE "disk"]

\* Allocation taking in_ram + 1 slots of the sorted slots
Allocation_OneMoreInRam(w, in_ram) ==
    [i \in DOMAIN w |->
        IF Cardinality({j \in DOMAIN w :
                            w[j] > w[i] \/ (w[j] = w[i] /\ j < i)}) <= in_ram
        THEN "RAM" ELSE "disk"]

\* allocate_snapshots: "RAM" for the first in_ram slots of the slots sorted by
\* weight, descending (a stable sort: equal weights stay in slot order)
Allocation(w, in_ram) ==
    [i \in DOMAIN w |->
        IF Cardinality({j \in DOMAIN w :
                            w[j] > w[i] \/ (w[j] = w[i] /\ j < i)}) < in_ram
        THEN "RAM" ELSE "disk"]

\* a field that holds None
None == -1

\* no TwoLevelCheckpointSchedule is being constructed
TwoLevelIdle ==
    /\ req_period = 0
    /\ req_storage = "None"
    /\ period = None
    /\ binomial_snapshots = None
    /\ binomial_storage = "None"
    /\ n0s = 0

\* no Cache is in use
CacheIdle ==
    /\ cache_class = "None"
    /\ _keys = << >>
    /\ _cache = << >>
    /\ _index = << >>
    /\ returned = << >>

\* no call of n_advance is being observed
NAdvanceIdle ==
    /\ na_n = 0
    /\ na_snapshots = 0
    /\ na_trajectory = "maximum"
    /\ na_result = Return(0)
    /\ na_pc = "idle"

\* MultistageCheckpointSchedule(N, ram, disk, keep_block_0_ics=keep,
\* trajectory=traj).  With RAM and disk snapshots the constructor is inside
\* allocate_snapshots, about to drive the dry-run schedule
\* MultistageCheckpointSchedule(N, ram + disk, 0, trajectory=traj).
Construct(N, ram, disk, keep, traj) ==
    LET dry == ram # 0 /\ disk # 0
    IN  /\ max_n = N
        /\ trajectory = traj
        /\ req_in_ram = ram
        /\ req_on_disk = disk
        /\ req_keep = keep
        /\ dry_run = dry
        /\ snapshots_in_ram = IF dry THEN ram + disk ELSE ram
        /\ snapshots_on_disk = IF dry THEN 0 ELSE disk
        /\ keep_block_0_ics = IF dry THEN FALSE ELSE keep
        /\ storage = IF dry THEN UniformStorage(ram + disk, "RAM")
                     ELSE IF ram = 0 THEN UniformStorage(disk, "disk")
                     ELSE UniformStorage(ram, "RAM")
        /\ weights = IF dry THEN [i \in 0 .. ram + disk - 1 |-> 0] ELSE << >>
        /\ snapshot_i = -1
        /\ n = CheckpointSchedule_init.n
        /\ r = CheckpointSchedule_init.r
        /\ snapshots = << >>
        /\ exhausted = FALSE
        /\ pc = "start"
        /\ n0 = 0
        /\ exc = "none"
        /\ emitted = << >>

Init ==
    /\ \E N \in 1 .. MaxN, ram \in 0 .. MaxRam, disk \in 0 .. MaxDisk,
          keep \in BOOLEAN, traj \in TrajectoryArgs :
            Construct(N, ram, disk, keep, traj)
    /\ NAdvanceIdle
    /\ TwoLevelIdle
    /\ CacheIdle

\* allocate_snapshots after its loop, and the rest of the constructor: the
\* dry run reached EndReverse
AllocateFinish ==
    /\ pc = "EndReverse"
    /\ dry_run
    /\ IF snapshot_i # -1
       THEN /\ Raise("AssertionError")
            /\ UNCHANGED <<snapshots_in_ram, snapshots_on_disk,
                           keep_block_0_ics, storage, dry_run, n, r, snapshots,
                           exhausted, emitted>>
       ELSE /\ snapshots_in_ram' = req_in_ram
            /\ snapshots_on_disk' = req_on_disk
            /\ keep_block_0_ics' = req_keep
            /\ storage' = Allocation(weights, req_in_ram)
            /\ dry_run' = FALSE
            /\ n' = CheckpointSchedule_init.n
            /\ r' = CheckpointSchedule_init.r
            /\ snapshots' = << >>
            /\ exhausted' = FALSE
            /\ pc' = "start"
            /\ exc' = exc
            /\ emitted' = << >>
    /\ UNCHANGED <<max_n, trajectory, req_in_ram, req_on_disk, req_keep, n0,
                   snapshot_i, weights, naVars, tlVars, cacheVars>>

Next ==
    \/ ForwardLoop
    \/ FwdForward
    \/ FwdWrite
    \/ FwdClear
    \/ LastForward
    \/ YieldEndForward
    \/ FirstReverse
    \/ FirstClear
    \/ ReverseLoop
    \/ ReadDeleteClear
    \/ ReadKeepClear
    \/ RerunConfigure
    \/ RerunForward
    \/ RerunClear
    \/ RewriteLoop
    \/ RewriteForward
    \/ RewriteWrite
    \/ RewriteClear
    \/ AdjConfigureAfterRead
    \/ AdjForward
    \/ AdjReverse
    \/ AdjClear
    \/ AllocateFinish

Spec == Init /\ [][Next]_vars

\* the driver requests the next action for as long as the schedule has one
FairSpec == Spec /\ WF_vars(Next)

\* ------------------------------------------------------------------ n_advance called on its own

InitNAdvance ==
    /\ na_n \in 0 .. MaxAdvanceN
    /\ na_snapshots \in -1 .. MaxAdvanceSnapshots
    /\ na_trajectory \in TrajectoryArgs
    /\ na_result = Return(0)
    /\ na_pc = "call"
    /\ Construct(1, 0, 0, FALSE, "maximum")
    /\ TwoLevelIdle
    /\ CacheIdle

CallNAdvance ==
    /\ na_pc = "call"
    /\ na_result' = n_advance(na_n, na_snapshots, na_trajectory)
    /\ na_pc' = IF na_result'.exc = "none" THEN "returned" ELSE "raised"
    /\ UNCHANGED <<na_n, na_snapshots, na_trajectory>>
    /\ UNCHANGED <<ctorVars, n, r, snapshots, exhausted, pc, n0, exc, emitted,
                   snapshot_i, weights, tlVars, cacheVars>>

NextNAdvance == CallNAdvance

SpecNAdvance == InitNAdvance /\ [][NextNAdvance]_vars

\* ------------------------------------------------------------------ TwoLevelCheckpointSchedule

\* the fields no TwoLevelCheckpointSchedule has
MultistageIdle ==
    /\ snapshots_in_ram = 0
    /\ snapshots_on_disk = 0
    /\ storage = << >>
    /\ exhausted = FALSE
    /\ dry_run = FALSE
    /\ req_in_ram = 0
    /\ req_on_disk = 0
    /\ req_keep = FALSE
    /\ snapshot_i = -1
    /\ weights = << >>

\* the constructor testing disk_period < 0
TwoLevel_ZeroPeriod(disk_period, snapshots_, storage_, keep, traj) ==
    LET raised == disk_period < 0 \/ storage_ \notin {"RAM", "disk"}
    IN  /\ req_period = disk_period
        /\ req_storage = storage_
        /\ max_n = None
        /\ n = CheckpointSchedule_init.n
        /\ r = CheckpointSchedule_init.r
        /\ period = IF raised THEN None ELSE disk_period
        /\ binomial_snapshots = IF raised THEN None ELSE snapshots_
        /\ binomial_storage = IF raised THEN "None" ELSE storage_
        /\ keep_block_0_ics = IF raised THEN FALSE ELSE keep
        /\ trajectory = IF raised THEN "None" ELSE traj
        /\ pc = IF raised THEN "error" ELSE "tl_start"
        /\ exc = IF raised THEN "ValueError" ELSE "none"
        /\ snapshots = << >>
        /\ n0 = 0
        /\ n0s = 0
        /\ emitted = << >>

\* TwoLevelCheckpointSchedule(disk_period, snapshots_,
\* binomial_storage=storage_, keep_block_0_ics=keep,
\* binomial_trajectory=traj): a ValueError leaves no object, and so no field
\* of it
TwoLevelCheckpointSchedule(disk_period, snapshots_, storage_, keep, traj) ==
    LET raised == disk_period < 1 \/ storage_ \notin {"RAM", "disk"}
    IN  /\ req_period = disk_period
        /\ req_storage = storage_
        /\ max_n = None
        /\ n = CheckpointSchedule_init.n
        /\ r = CheckpointSchedule_init.r
        /\ period = IF raised THEN None ELSE disk_period
        /\ binomial_snapshots = IF raised THEN None ELSE snapshots_
        /\ binomial_storage = IF raised THEN "None" ELSE storage_
        /\ keep_block_0_ics = IF raised THEN FALSE ELSE keep
        /\ trajectory = IF raised THEN "None" ELSE traj
        /\ pc = IF raised THEN "error" ELSE "tl_start"
        /\ exc = IF raised THEN "ValueError" ELSE "none"
        /\ snapshots = << >>
        /\ n0 = 0
        /\ n0s = 0
        /\ emitted = << >>

InitTwoLevel ==
    /\ \E disk_period \in -1 .. MaxPeriod,
          snapshots_ \in 0 .. MaxBinomialSnapshots,
          storage_ \in {"RAM", "disk", "other"},
          keep \in BOOLEAN, traj \in TrajectoryArgs :
            TwoLevelCheckpointSchedule(disk_period, snapshots_, storage_,
                                       keep, traj)
    /\ MultistageIdle
    /\ NAdvanceIdle
    /\ CacheIdle

\* what no step of iter() changes
tlFixed == <<ctorVars, exhausted, naVars, tlFields, cacheVars>>

\* the head of the forward loop, and what follows its exit
TlForwardLoop ==
    /\ pc \in {"tl_start", "tl_fwd_Clear"}
    /\ IF max_n = None
       THEN Yield(Configure(TRUE, FALSE), "tl_fwd_Configure")
       ELSE Yield(EndForward, "tl_EndForward")
    /\ UNCHANGED <<n, r, snapshots, n0, n0s, tlFixed>>

\* TlFwdForward running one step instead of a period
TlFwdForward_OneStep ==
    /\ pc = "tl_fwd_Configure"
    /\ IF max_n # None
       THEN Fail("RuntimeError") /\ UNCHANGED <<n, n0>>
       ELSE /\ n0' = n
            /\ n' = n + 1
            /\ Yield(Forward(n, n + 1), "tl_fwd_Forward")
    /\ UNCHANGED <<r, snapshots, n0s, tlFixed>>

\* a whole period is run
TlFwdForward ==
    /\ pc = "tl_fwd_Configure"
    /\ IF max_n # None
       THEN Fail("RuntimeError") /\ UNCHANGED <<n, n0>>
       ELSE /\ n0' = n
            /\ n' = n + period
            /\ Yield(Forward(n, n + period), "tl_fwd_Forward")
    /\ UNCHANGED <<r, snapshots, n0s, tlFixed>>

\* CheckpointSchedule.finalize(m), called by the driver where iter() permits
\* it, after Forward(n0, n1): the forward calculation ended at step m of the
\* period just run
finalize(m) ==
    /\ pc = "tl_fwd_Forward"
    /\ max_n = None
    /\ IF m < 1
       THEN Raise("ValueError") /\ UNCHANGED <<n, max_n>>
       ELSE IF n >= m
       THEN /\ n' = m
            /\ max_n' = m
            /\ UNCHANGED <<pc, exc>>
       ELSE Raise("RuntimeError") /\ UNCHANGED <<n, max_n>>
    /\ UNCHANGED <<snapshots_in_ram, snapshots_on_disk, keep_block_0_ics,
                   trajectory, storage, dry_run, req_in_ram, req_on_disk,
                   req_keep, exhausted, naVars, tlFields, r, snapshots, n0,
                   n0s, emitted, snapshot_i, weights, cacheVars>>

\* the driver runs at most MaxTwoLevelN steps
Finalize == \E m \in n0 + 1 .. Min(n, MaxTwoLevelN) : finalize(m)

\* TlFwdWrite naming the step the Forward ended at
TlFwdWrite_AtCursor ==
    /\ pc = "tl_fwd_Forward"
    /\ max_n # None \/ n < MaxTwoLevelN
    /\ Yield(Write(n, "disk"), "tl_fwd_Write")
    /\ UNCHANGED <<n, r, snapshots, n0, n0s, tlFixed>>

\* the snapshot of the period's first step; without a finalize the driver
\* goes on only if it has run less than MaxTwoLevelN steps
TlFwdWrite ==
    /\ pc = "tl_fwd_Forward"
    /\ max_n # None \/ n < MaxTwoLevelN
    /\ Yield(Write(n0, "disk"), "tl_fwd_Write")
    /\ UNCHANGED <<n, r, snapshots, n0, n0s, tlFixed>>

TlFwdClear ==
    /\ pc = "tl_fwd_Write"
    /\ Yield(Clear(TRUE, TRUE), "tl_fwd_Clear")
    /\ UNCHANGED <<n, r, snapshots, n0, n0s, tlFixed>>

\* TlRead reading every snapshot, the period's too, from binomial_storage
TlRead_InnerTier(stack, base) ==
    IF Len(stack) = 0
    THEN Fail("RuntimeError") /\ UNCHANGED <<n, snapshots>>
    ELSE LET cp_n == stack[Len(stack)]
         IN  IF cp_n = max_n - r - 1
             THEN /\ snapshots' = SubSeq(stack, 1, Len(stack) - 1)
                  /\ n' = cp_n
                  /\ Yield(Read(cp_n, binomial_storage, cp_n # base),
                           "tl_Read_pop")
             ELSE /\ snapshots' = stack
                  /\ n' = cp_n
                  /\ Yield(Read(cp_n, binomial_storage, FALSE),
                           "tl_Read_keep")

\* TlRead deleting the disk snapshot of the period when it is at the step
\* needed next
TlRead_DeletePeriod(stack, base) ==
    IF Len(stack) = 0
    THEN Fail("RuntimeError") /\ UNCHANGED <<n, snapshots>>
    ELSE LET cp_n == stack[Len(stack)]
         IN  IF cp_n = max_n - r - 1
             THEN /\ snapshots' = SubSeq(stack, 1, Len(stack) - 1)
                  /\ n' = cp_n
                  /\ IF cp_n = base
                     THEN Yield(Read(cp_n, "disk", TRUE), "tl_Read_pop")
                     ELSE Yield(Read(cp_n, binomial_storage, TRUE),
                                "tl_Read_pop")
             ELSE /\ snapshots' = stack
                  /\ n' = cp_n
                  /\ IF cp_n = base
                     THEN Yield(Read(cp_n, "disk", FALSE), "tl_Read_keep")
                     ELSE Yield(Read(cp_n, binomial_storage, FALSE),
                                "tl_Read_keep")

\* the body of "while self._r < self._max_n - n0s" up to its Read, with the
\* list snapshots equal to stack and n0s equal to base
TlRead(stack, base) ==
    IF Len(stack) = 0
    THEN Fail("RuntimeError") /\ UNCHANGED <<n, snapshots>>
    ELSE LET cp_n == stack[Len(stack)]
         IN  IF cp_n = max_n - r - 1
             THEN /\ snapshots' = SubSeq(stack, 1, Len(stack) - 1)
                  /\ n' = cp_n
                  /\ IF cp_n = base
                     THEN Yield(Read(cp_n, "disk", FALSE), "tl_Read_pop")
                     ELSE Yield(Read(cp_n, binomial_storage, TRUE),
                                "tl_Read_pop")
             ELSE /\ snapshots' = stack
                  /\ n' = cp_n
                  /\ IF cp_n = base
                     THEN Yield(Read(cp_n, "disk", FALSE), "tl_Read_keep")
                     ELSE Yield(Read(cp_n, binomial_storage, FALSE),
                                "tl_Read_keep")

\* the body of "while self._r < self._max_n" up to the first Read of the
\* period
TlPeriod ==
    LET n_ == max_n - r - 1
        n0s_ == (n_ \div period) * period
        n1s == Min(n0s_ + period, max_n)
    IN  IF r # max_n - n1s
        THEN Fail("RuntimeError") /\ UNCHANGED <<n, snapshots, n0s>>
        ELSE /\ n0s' = n0s_
             /\ IF r < max_n - n0s_
                THEN TlRead(<<n0s_>>, n0s_)
                ELSE Fail("RuntimeError") /\ UNCHANGED <<n, snapshots>>

\* TlSweep without self._r = 0
TlSweep_NoReset ==
    IF r < max_n
    THEN TlPeriod /\ UNCHANGED r
    ELSE IF r # max_n
    THEN Fail("RuntimeError") /\ UNCHANGED <<n, r, snapshots, n0s>>
    ELSE /\ Yield(EndReverse(FALSE), "tl_EndReverse")
         /\ UNCHANGED <<n, r, snapshots, n0s>>

\* TlSweep yielding EndReverse(True)
TlSweep_Exhausted ==
    IF r < max_n
    THEN TlPeriod /\ UNCHANGED r
    ELSE IF r # max_n
    THEN Fail("RuntimeError") /\ UNCHANGED <<n, r, snapshots, n0s>>
    ELSE /\ r' = 0
         /\ Yield(EndReverse(TRUE), "tl_EndReverse")
         /\ UNCHANGED <<n, snapshots, n0s>>

\* the head of "while self._r < self._max_n", and what follows its exit
TlSweep ==
    IF r < max_n
    THEN TlPeriod /\ UNCHANGED r
    ELSE IF r # max_n
    THEN Fail("RuntimeError") /\ UNCHANGED <<n, r, snapshots, n0s>>
    ELSE /\ r' = 0
         /\ Yield(EndReverse(FALSE), "tl_EndReverse")
         /\ UNCHANGED <<n, snapshots, n0s>>

\* the reverse sweeps completed
Sweeps == Len(SelectSeq(emitted, LAMBDA a : a[1] = "EndReverse"))

\* "Reverse": the heads of the three nested loops; the driver asks for at
\* most MaxSweeps reverse sweeps
TlReverseLoop ==
    /\ pc \in {"tl_EndForward", "tl_EndReverse", "tl_adj_Clear"}
    /\ pc = "tl_EndReverse" => Sweeps < MaxSweeps
    /\ IF pc = "tl_adj_Clear"
       THEN IF r < max_n - n0s
            THEN TlRead(snapshots, n0s) /\ UNCHANGED <<r, n0s>>
            ELSE IF r # max_n - n0s
            THEN Fail("RuntimeError") /\ UNCHANGED <<n, r, snapshots, n0s>>
            ELSE IF Len(snapshots) # 0
            THEN Fail("RuntimeError") /\ UNCHANGED <<n, r, snapshots, n0s>>
            ELSE TlSweep
       ELSE TlSweep
    /\ UNCHANGED <<n0, tlFixed>>

TlReadPopClear ==
    /\ pc = "tl_Read_pop"
    /\ Yield(Clear(TRUE, TRUE), "tl_Read_pop_Clear")
    /\ UNCHANGED <<n, r, snapshots, n0, n0s, tlFixed>>

TlReadKeepClear ==
    /\ pc = "tl_Read_keep"
    /\ Yield(Clear(TRUE, TRUE), "tl_Read_keep_Clear")
    /\ UNCHANGED <<n, r, snapshots, n0, n0s, tlFixed>>

TlRerunConfigure ==
    /\ pc = "tl_Read_keep_Clear"
    /\ Yield(Configure(FALSE, FALSE), "tl_rerun_Configure")
    /\ UNCHANGED <<n, r, snapshots, n0, n0s, tlFixed>>

\* TlRerunForward not counting the slot of the snapshot just read
TlRerunForward_NoSlotBack ==
    /\ pc = "tl_rerun_Configure"
    /\ AdvanceAndForward(max_n - r - n,
                         binomial_snapshots + 1 - Len(snapshots),
                         "tl_rerun_Forward")
    /\ UNCHANGED <<r, snapshots, n0s, tlFixed>>

TlRerunForward ==
    /\ pc = "tl_rerun_Configure"
    /\ AdvanceAndForward(max_n - r - n,
                         binomial_snapshots + 1 - Len(snapshots) + 1,
                         "tl_rerun_Forward")
    /\ UNCHANGED <<r, snapshots, n0s, tlFixed>>

TlRerunClear ==
    /\ pc = "tl_rerun_Forward"
    /\ Yield(Clear(TRUE, TRUE), "tl_rerun_Clear")
    /\ UNCHANGED <<n, r, snapshots, n0, n0s, tlFixed>>

\* the head of the loop that advances to max_n - r - 1 writing snapshots, and
\* what follows its exit
TlRewriteLoop ==
    /\ pc \in {"tl_rerun_Clear", "tl_rewrite_Clear"}
    /\ IF n < max_n - r - 1
       THEN Yield(Configure(TRUE, FALSE), "tl_rewrite_Configure")
       ELSE IF n # max_n - r - 1
       THEN Fail("RuntimeError")
       ELSE Yield(Configure(keep_block_0_ics /\ n = 0, TRUE),
                  "tl_adj_Configure")
    /\ UNCHANGED <<n, r, snapshots, n0, n0s, tlFixed>>

\* TlRewriteForward counting one snapshot more than there is room for
TlRewriteForward_OneMore ==
    /\ pc = "tl_rewrite_Configure"
    /\ AdvanceAndForward(max_n - r - n,
                         binomial_snapshots + 1 - Len(snapshots) + 1,
                         "tl_rewrite_Forward")
    /\ UNCHANGED <<r, snapshots, n0s, tlFixed>>

TlRewriteForward ==
    /\ pc = "tl_rewrite_Configure"
    /\ AdvanceAndForward(max_n - r - n,
                         binomial_snapshots + 1 - Len(snapshots),
                         "tl_rewrite_Forward")
    /\ UNCHANGED <<r, snapshots, n0s, tlFixed>>

TlRewriteWrite ==
    /\ pc = "tl_rewrite_Forward"
    /\ IF Len(snapshots) >= binomial_snapshots + 1
       THEN Fail("RuntimeError") /\ UNCHANGED snapshots
       ELSE /\ snapshots' = Append(snapshots, n0)
            /\ Yield(Write(n0, binomial_storage), "tl_rewrite_Write")
    /\ UNCHANGED <<n, r, n0, n0s, tlFixed>>

TlRewriteClear ==
    /\ pc = "tl_rewrite_Write"
    /\ Yield(Clear(TRUE, TRUE), "tl_rewrite_Clear")
    /\ UNCHANGED <<n, r, snapshots, n0, n0s, tlFixed>>

\* TlAdjConfigureAfterRead storing the initial conditions of every block
TlAdjConfigureAfterRead_AnyStep ==
    /\ pc = "tl_Read_pop_Clear"
    /\ Yield(Configure(keep_block_0_ics, TRUE), "tl_adj_Configure")
    /\ UNCHANGED <<n, r, snapshots, n0, n0s, tlFixed>>

\* after the Read of the snapshot at the step needed next, and its Clear
TlAdjConfigureAfterRead ==
    /\ pc = "tl_Read_pop_Clear"
    /\ Yield(Configure(keep_block_0_ics /\ n = 0, TRUE), "tl_adj_Configure")
    /\ UNCHANGED <<n, r, snapshots, n0, n0s, tlFixed>>

TlAdjForward ==
    /\ pc = "tl_adj_Configure"
    /\ n' = n + 1
    /\ Yield(Forward(n, n + 1), "tl_adj_Forward")
    /\ UNCHANGED <<r, snapshots, n0, n0s, tlFixed>>

TlAdjReverse ==
    /\ pc = "tl_adj_Forward"
    /\ r' = r + 1
    /\ Yield(Reverse(n, n - 1), "tl_adj_Reverse")
    /\ UNCHANGED <<n, snapshots, n0, n0s, tlFixed>>

TlAdjClear ==
    /\ pc = "tl_adj_Reverse"
    /\ Yield(Clear(~keep_block_0_ics \/ n # 1, TRUE), "tl_adj_Clear")
    /\ UNCHANGED <<n, r, snapshots, n0, n0s, tlFixed>>

NextTwoLevel ==
    \/ TlForwardLoop
    \/ TlFwdForward
    \/ Finalize
    \/ TlFwdWrite
    \/ TlFwdClear
    \/ TlReverseLoop
    \/ TlReadPopClear
    \/ TlReadKeepClear
    \/ TlRerunConfigure
    \/ TlRerunForward
    \/ TlRerunClear
    \/ TlRewriteLoop
    \/ TlRewriteForward
    \/ TlRewriteWrite
    \/ TlRewriteClear
    \/ TlAdjConfigureAfterRead
    \/ TlAdjForward
    \/ TlAdjReverse
    \/ TlAdjClear

SpecTwoLevel == InitTwoLevel /\ [][NextTwoLevel]_vars

\* the driver goes on requesting actions: every request is answered after
\* finitely many steps of iter()
FairSpecTwoLevel == SpecTwoLevel /\ WF_vars(NextTwoLevel)

\* ------------------------------------------------------------------ caches.py: CacheIndex, Cache, AssemblyCache, LinearSolverCache

\* a form: the expression form_key reduces it to, and len(form.arguments())
Forms ==
    {[expr |-> "J", rank |-> 0], [expr |-> "L", rank |-> 1],
     [expr |-> "a", rank |-> 2], [expr |-> "T", rank |-> 3]}
\* lists of boundary conditions
BcsLists == {<< >>, <<"bc">>}
\* parameter dictionaries, as the sequence of their items in insertion order
ParameterDicts ==
    {<<<<"ksp_type", "cg">>, <<"pc_type", "sor">>>>,
     <<<<"pc_type", "sor">>, <<"ksp_type", "cg">>>>}
\* sorted(parameters.keys()) of the dictionaries above
SortedNames == <<"ksp_type", "pc_type">>
\* values the caller of Cache.append passes
AppendValues == {<<"value", 1>>, <<"value", 2>>}

RECURSIVE ItemsByName(_, _)
ItemsByName(parameters, names) ==
    IF names = << >> THEN << >>
    ELSE LET I == {i \in DOMAIN parameters : parameters[i][1] = Head(names)}
         IN  (IF I = {} THEN << >>
              ELSE <<parameters[CHOOSE i \in I : TRUE]>>)
             \o ItemsByName(parameters, Tail(names))

\* the (name, value) items for name in sorted(parameters.keys())
parameters_key(parameters) == ItemsByName(parameters, SortedNames)

form_key(form) == form.expr

assemble_key(form, bcs, form_compiler_parameters) ==
    <<form_key(form), bcs, parameters_key(form_compiler_parameters)>>

linear_solver_key(form, bcs, linear_solver_parameters, form_compiler_parameters) ==
    <<form_key(form), bcs, parameters_key(linear_solver_parameters),
      parameters_key(form_compiler_parameters)>>

\* the positions of key in self._keys
ItemsOf(key) == {i \in DOMAIN _keys : _keys[i][1] = key}

\* self._keys.get(key, None) never finding the key
get_Miss(key) == None

\* self._keys.get(key, None): the CacheIndex stored for key
get(key) ==
    IF ItemsOf(key) = {} THEN None
    ELSE _keys[CHOOSE i \in ItemsOf(key) : TRUE][2]

\* Cache.__getitem__(key): self._cache[key.index()]
getitem(index) == _cache[_index[index] + 1]

\* Cache.append(key, value); the CacheIndex it returns is the one created
\* last
append(key, value) ==
    /\ _cache' = Append(_cache, value)
    /\ _index' = Append(_index, Len(_cache') - 1)
    /\ _keys' = IF ItemsOf(key) = {}
                THEN Append(_keys, <<key, Len(_index')>>)
                ELSE [_keys EXCEPT ![CHOOSE i \in ItemsOf(key) : TRUE] =
                         <<key, Len(_index')>>]

\* what a call returned, or that it raised
Returns(op, key, index, value) ==
    /\ returned' = Append(returned, [op |-> op, key |-> key, index |-> index,
                                     value |-> value, raised |-> FALSE])
Raises(op, key) ==
    /\ returned' = Append(returned, [op |-> op, key |-> key, index |-> None,
                                     value |-> <<"none", 0>>,
                                     raised |-> TRUE])
    /\ UNCHANGED <<_keys, _cache, _index>>

scheduleVars ==
    <<max_n, snapshots_in_ram, snapshots_on_disk, keep_block_0_ics,
      trajectory, storage, n, r, snapshots, exhausted, pc, n0, exc, emitted,
      dry_run, req_in_ram, req_on_disk, req_keep, snapshot_i, weights, naVars,
      tlVars>>

\* a call of Cache.append by the user of the cache
Append_(key, value) ==
    /\ Len(returned) < MaxRequests
    /\ append(key, value)
    /\ Returns("append", key, Len(_index'), value)
    /\ UNCHANGED <<cache_class, scheduleVars>>

\* Cache.clear()
clear ==
    /\ Len(returned) < MaxRequests
    /\ _index' = [i \in DOMAIN _index |->
                     IF \E k \in DOMAIN _keys : _keys[k][2] = i
                     THEN None ELSE _index[i]]
    /\ _keys' = << >>
    /\ _cache' = << >>
    /\ returned' = Append(returned, [op |-> "clear", key |-> << >>,
                                     index |-> None, value |-> <<"none", 0>>,
                                     raised |-> FALSE])
    /\ UNCHANGED <<cache_class, scheduleVars>>

\* AssemblyCache.assemble(form, bcs, form_compiler_parameters); b is the
\* object a call of the backend's assemble creates
assemble(form, bcs, form_compiler_parameters) ==
    LET key == assemble_key(form, bcs, form_compiler_parameters)
        index == get(key)
        b == <<"b", Len(returned) + 1>>
    IN  /\ cache_class = "AssemblyCache"
        /\ Len(returned) < MaxRequests
        /\ IF index = None
           THEN IF form.rank = 0 /\ Len(bcs) > 0
                THEN Raises("assemble", key)
                ELSE IF form.rank \in {0, 1, 2}
                THEN append(key, b) /\ Returns("assemble", key, Len(_index'), b)
                ELSE Raises("assemble", key)
           ELSE /\ Returns("assemble", key, index, getitem(index))
                /\ UNCHANGED <<_keys, _cache, _index>>
        /\ UNCHANGED <<cache_class, scheduleVars>>

\* LinearSolverCache.linear_solver(form, A, bcs, linear_solver_parameters,
\* form_compiler_parameters); solver is the LinearSolver the call creates
linear_solver(form, bcs, linear_solver_parameters, form_compiler_parameters) ==
    LET key == linear_solver_key(form, bcs, linear_solver_parameters,
                                 form_compiler_parameters)
        index == get(key)
        solver == <<"solver", Len(returned) + 1>>
    IN  /\ cache_class = "LinearSolverCache"
        /\ Len(returned) < MaxRequests
        /\ IF index = None
           THEN append(key, solver)
                /\ Returns("linear_solver", key, Len(_index'), solver)
           ELSE /\ Returns("linear_solver", key, index, getitem(index))
                /\ UNCHANGED <<_keys, _cache, _index>>
        /\ UNCHANGED <<cache_class, scheduleVars>>

\* the keys of the requests a cache of either class serves
RequestKeys ==
    IF cache_class = "AssemblyCache"
    THEN {assemble_key(form, bcs, fcp) :
             form \in Forms, bcs \in BcsLists, fcp \in ParameterDicts}
    ELSE {linear_solver_key(form, bcs, lsp, << >>) :
             form \in Forms, bcs \in BcsLists, lsp \in ParameterDicts}

Assemble ==
    \E form \in Forms, bcs \in BcsLists, fcp \in ParameterDicts :
        assemble(form, bcs, fcp)

LinearSolve ==
    \E form \in Forms, bcs \in BcsLists, lsp \in ParameterDicts :
        linear_solver(form, bcs, lsp, << >>)

\* the user of the cache appends under keys without boundary conditions
AppendCall ==
    \E key \in {k \in RequestKeys : k[2] = << >>}, value \in AppendValues :
        Append_(key, value)

\* Cache.__init__ of a cache of either class; no schedule is in use
InitCache ==
    /\ cache_class \in {"AssemblyCache", "LinearSolverCache"}
    /\ _keys = << >>
    /\ _cache = << >>
    /\ _index = << >>
    /\ returned = << >>
    /\ Construct(1, 0, 0, FALSE, "maximum")
    /\ NAdvanceIdle
    /\ TwoLevelIdle

NextCache ==
    \/ Assemble
    \/ LinearSolve
    \/ AppendCall
    \/ clear

SpecCache == InitCache /\ [][NextCache]_vars

\* ------------------------------------------------------------------ both schedules

InitSchedules == Init \/ InitTwoLevel

NextSchedules == Next \/ NextTwoLevel

\* a schedule of either class
SpecSchedules == InitSchedules /\ [][NextSchedules]_vars

\* ------------------------------------------------------------------ reading the emitted actions

OfKind(seq, kind) == SelectSeq(seq, LAMBDA a : a[1] = kind)
Count(kind) == Len(OfKind(emitted, kind))
DeletingReads(seq) ==
    SelectSeq(seq, LAMBDA a : IF a[1] = "Read" THEN a[4] ELSE FALSE)
\* snapshots the driver holds: written and not yet read with delete = true
HeldByDriver == Count("Write") - Len(DeletingReads(emitted))
Emitted(kind) == Len(emitted) > 0 /\ emitted[Len(emitted)][1] = kind
\* positions of the actions of a kind
Positions(kind) == {i \in 1 .. Len(emitted) : emitted[i][1] = kind}
SetMin(S) == CHOOSE x \in S : \A y \in S : x <= y
SetMax(S) == CHOOSE x \in S : \A y \in S : x >= y
\* the constructor's arguments are those of a schedule that can run
ValidArguments ==
    /\ trajectory \in Trajectories
    /\ req_in_ram + req_on_disk >= 1

\* ------------------------------------------------------------------ claims

\* C1: after any prefix of the action sequence the snapshot stack, and the
\* number of snapshots written and not yet read with delete = true, do not
\* exceed snapshots_in_ram + snapshots_on_disk.
C1_StackWithinCapacity ==
    /\ Len(snapshots) <= snapshots_in_ram + snapshots_on_disk
    /\ HeldByDriver <= snapshots_in_ram + snapshots_on_disk
    /\ pc # "error" => HeldByDriver = Len(snapshots)

\* a full stack of three or more, refilled in the reverse phase
C1_Witness ==
    /\ ~dry_run
    /\ pc = "rewrite_Write"
    /\ r > 0
    /\ Len(snapshots) = snapshots_in_ram + snapshots_on_disk
    /\ Len(snapshots) >= 3

\* C2: when EndReverse is emitted the snapshot stack is empty, every snapshot
\* written has been read with delete = true, and r = max_n.
C2_EndReverseEmptyStack ==
    Emitted("EndReverse") =>
        /\ snapshots = << >>
        /\ Count("Write") = Len(DeletingReads(emitted))
        /\ r = max_n

C2_Witness ==
    /\ ~dry_run
    /\ Emitted("EndReverse")
    /\ Count("Write") > snapshots_in_ram + snapshots_on_disk
    /\ snapshots_in_ram + snapshots_on_disk >= 2

\* C3: with max_n >= 1, at least one snapshot and either trajectory, no
\* exception leaves the schedule and, the driver requesting action after
\* action, EndReverse(True) is reached.
C3_ReachesEndReverse ==
    /\ [](ValidArguments => pc # "error")
    /\ ValidArguments ~>
          (~dry_run /\ pc = "EndReverse" /\ exhausted
             /\ emitted[Len(emitted)] = EndReverse(TRUE))

\* a run with RAM and disk snapshots, through the dry run, to EndReverse
C3_Witness ==
    /\ ~dry_run
    /\ pc = "EndReverse"
    /\ snapshots_in_ram >= 1
    /\ snapshots_on_disk >= 1
    /\ max_n >= 8
    /\ trajectory = "revolve"
    /\ Count("Read") - Len(DeletingReads(emitted)) >= 3

\* C4: r is the number of Reverse actions emitted, never exceeds max_n, equals
\* max_n when EndReverse is emitted, and once r = max_n only Clear and
\* EndReverse follow the last Reverse.
C4_ReverseCursor ==
    /\ r = Count("Reverse")
    /\ r <= max_n
    /\ Count("EndReverse") > 0 => r = max_n
    /\ r = max_n =>
          \A i \in 1 .. Len(emitted) :
              i > SetMax(Positions("Reverse")) =>
                  emitted[i][1] \in {"Clear", "EndReverse"}

C4_Witness ==
    /\ ~dry_run
    /\ Emitted("EndReverse")
    /\ r = max_n
    /\ max_n >= 6
    /\ snapshots_in_ram + snapshots_on_disk = 2

\* C5: EndForward is emitted at most once and before every Reverse; a
\* complete run has emitted exactly one EndForward and exactly max_n Reverse.
C5_OneEndForward ==
    /\ Count("EndForward") <= 1
    /\ Count("Reverse") > 0 =>
          /\ Count("EndForward") = 1
          /\ SetMin(Positions("EndForward")) < SetMin(Positions("Reverse"))
    /\ Emitted("EndReverse") =>
          /\ Count("EndForward") = 1
          /\ Count("Reverse") = max_n

C5_Witness ==
    /\ ~dry_run
    /\ Emitted("EndReverse")
    /\ max_n = 10
    /\ snapshots_in_ram + snapshots_on_disk = 3
    /\ trajectory = "maximum"
    /\ Count("Reverse") = 10

\* C6: the k-th Reverse emitted is Reverse(max_n - k + 1, max_n - k), and a
\* complete run has emitted all of k = 1 .. max_n.
C6_ReverseOrder ==
    LET reverses == OfKind(emitted, "Reverse")
    IN  /\ \A k \in 1 .. Len(reverses) :
              reverses[k] = Reverse(max_n - k + 1, max_n - k)
        /\ Emitted("EndReverse") => Len(reverses) = max_n

C6_Witness ==
    /\ ~dry_run
    /\ Emitted("EndReverse")
    /\ max_n >= 7
    /\ OfKind(emitted, "Reverse")[max_n] = Reverse(1, 0)
    /\ Count("Write") > snapshots_in_ram + snapshots_on_disk

\* C7 as stated: the Write actions of a run, forward and reverse sweep
\* together, number at most snapshots_in_ram + snapshots_on_disk.
C7_TotalWritesWithinCapacity ==
    Count("Write") <= snapshots_in_ram + snapshots_on_disk

\* the Write actions emitted before EndForward
ForwardSweepWrites ==
    Cardinality({i \in Positions("Write") :
                    \A j \in Positions("EndForward") : i < j})

\* C7, amended: the Write actions emitted before EndForward number at most
\* snapshots_in_ram + snapshots_on_disk.
C7_ForwardWritesWithinCapacity ==
    ForwardSweepWrites <= snapshots_in_ram + snapshots_on_disk

\* a complete run that filled every slot in the forward sweep and wrote
\* again in the reverse sweep
C7_Witness ==
    /\ ~dry_run
    /\ Emitted("EndReverse")
    /\ snapshots_in_ram + snapshots_on_disk >= 2
    /\ ForwardSweepWrites = snapshots_in_ram + snapshots_on_disk
    /\ Count("Write") > ForwardSweepWrites

\* the forward steps executed: the sum of n1 - n0 over the Forward actions
RECURSIVE ForwardSteps(_)
ForwardSteps(seq) ==
    IF Len(seq) = 0 THEN 0
    ELSE (IF Head(seq)[1] = "Forward" THEN Head(seq)[3] - Head(seq)[2] ELSE 0)
         + ForwardSteps(Tail(seq))

\* the least number of forward steps that reverses steps steps with s snapshots
RECURSIVE opt(_, _)
opt(steps, s) ==
    IF steps = 1 THEN 1
    ELSE IF s = 1 THEN (steps * (steps + 1)) \div 2
    ELSE SetMin({i + opt(i, s) + opt(steps - i, s - 1) : i \in 1 .. steps - 1})

\* C8: a complete run with at least one snapshot has executed exactly
\* opt(max_n, snapshots_in_ram + snapshots_on_disk) forward steps, for either
\* trajectory.
C8_ForwardStepsOptimal ==
    (Emitted("EndReverse") /\ snapshots_in_ram + snapshots_on_disk >= 1) =>
        ForwardSteps(emitted) = opt(max_n, snapshots_in_ram + snapshots_on_disk)

\* a complete run whose optimum is below the cost with a single snapshot
C8_Witness ==
    /\ ~dry_run
    /\ Emitted("EndReverse")
    /\ max_n >= 9
    /\ snapshots_in_ram + snapshots_on_disk = 3
    /\ ForwardSteps(emitted) < (max_n * (max_n + 1)) \div 2
    /\ ForwardSteps(emitted) > 2 * max_n

\* C9: n_advance(n, snapshots) with n >= 1, snapshots >= 1,
\* snapshots < n - 1 and either trajectory returns r with 0 < r < n.
C9_AdvanceWithinInterval ==
    (/\ na_pc # "call"
     /\ na_n >= 1
     /\ na_snapshots >= 1
     /\ na_snapshots < na_n - 1
     /\ na_trajectory \in Trajectories) =>
        /\ na_pc = "returned"
        /\ 0 < na_result.value
        /\ na_result.value < na_n

\* a call in the general case, returning neither 1 nor n - 1
C9_Witness ==
    /\ na_pc = "returned"
    /\ na_snapshots >= 2
    /\ na_snapshots < na_n - 1
    /\ na_result.value > 1
    /\ na_result.value < na_n - 1

\* C10 as stated: n_advance(n, snapshots) with n >= 1, snapshots >= 1 and
\* snapshots >= n - 1 returns 1.
C10_MaximalStorageReturnsOne ==
    (/\ na_pc # "call"
     /\ na_n >= 1
     /\ na_snapshots >= 1
     /\ na_snapshots >= na_n - 1) =>
        /\ na_pc = "returned"
        /\ na_result.value = 1

\* C10, amended: with snapshots >= 1 and snapshots >= n - 1, n_advance
\* returns 1 when n >= 2 and 0 when n = 1.
C10_MaximalStorageFromTwo ==
    (/\ na_pc # "call"
     /\ na_n >= 1
     /\ na_snapshots >= 1
     /\ na_snapshots >= na_n - 1) =>
        /\ na_pc = "returned"
        /\ na_result.value = IF na_n >= 2 THEN 1 ELSE 0

\* a call with more snapshots than steps to store
C10_Witness ==
    /\ na_pc = "returned"
    /\ na_n >= 3
    /\ na_snapshots > na_n
    /\ na_result.value = 1

\* C11: n_advance(n, 1) with n >= 1 returns n - 1, for either trajectory.
C11_MinimalStorage ==
    (na_pc # "call" /\ na_n >= 1 /\ na_snapshots = 1) =>
        /\ na_pc = "returned"
        /\ na_result.value = na_n - 1

C11_Witness ==
    /\ na_pc = "returned"
    /\ na_n = 10
    /\ na_snapshots = 1
    /\ na_result.value = 9

\* C12: n_advance with n < 1 or snapshots <= 0 raises ValueError and returns
\* no run length, whatever the trajectory.
C12_PreconditionsRaise ==
    (na_pc # "call" /\ (na_n < 1 \/ na_snapshots <= 0)) =>
        /\ na_pc = "raised"
        /\ na_result.exc = "ValueError"

\* a call with steps to take and no snapshot
C12_Witness ==
    /\ na_pc = "raised"
    /\ na_n >= 2
    /\ na_snapshots = 0
    /\ na_result.exc = "ValueError"

\* the binomial coefficient m over k
RECURSIVE Binomial(_, _)
Binomial(m, k) ==
    IF k = 0 THEN 1
    ELSE IF m < k THEN 0
    ELSE Binomial(m - 1, k - 1) + Binomial(m - 1, k)

\* beta(a, b) = C(a + b, b), and 0 when a < 0
B(a, b) == IF a < 0 THEN 0 ELSE Binomial(a + b, b)

\* the smallest t >= 2 with B(s, t) >= steps
SmallestT(steps, s) ==
    CHOOSE t \in 2 .. steps :
        /\ B(s, t) >= steps
        /\ \A u \in 2 .. t - 1 : B(s, u) < steps

\* the step of GW2000, bottom of p. 34
RevolveByBinomials(steps, s) ==
    LET t == SmallestT(steps, s)
    IN  IF steps <= B(s, t - 1) + B(s - 2, t - 1)
        THEN B(s, t - 2)
        ELSE IF steps >= B(s, t - 1) + B(s - 1, t - 1) + B(s - 2, t - 1)
        THEN B(s, t - 1)
        ELSE steps - B(s - 1, t - 1) - B(s - 2, t - 1)

\* C13: with trajectory "revolve" and 1 < snapshots < n - 1 n_advance returns
\* the step given by the exact binomials, and its loop ends at the smallest
\* t >= 2 with B(s, t) >= n, with b_s_tm2, b_s_tm1, b_s_t the binomials
\* B(s, t - 2), B(s, t - 1), B(s, t) and B(s, t - 1) < n <= B(s, t).
C13_RevolveBinomials ==
    (/\ na_pc # "call"
     /\ na_trajectory = "revolve"
     /\ 1 < na_snapshots
     /\ na_snapshots < na_n - 1) =>
        LET b == Betas(na_n, na_snapshots)
            t == SmallestT(na_n, na_snapshots)
        IN  /\ na_pc = "returned"
            /\ na_result.value = RevolveByBinomials(na_n, na_snapshots)
            /\ b.t = t
            /\ b.b_s_tm2 = B(na_snapshots, t - 2)
            /\ b.b_s_tm1 = B(na_snapshots, t - 1)
            /\ b.b_s_t = B(na_snapshots, t)
            /\ b.b_s_tm1 < na_n
            /\ na_n <= b.b_s_t

\* a call in the middle case, with the loop run past t = 3
C13_Witness ==
    /\ na_pc = "returned"
    /\ na_trajectory = "revolve"
    /\ 1 < na_snapshots
    /\ na_snapshots < na_n - 1
    /\ SmallestT(na_n, na_snapshots) >= 4
    /\ na_result.value # B(na_snapshots, SmallestT(na_n, na_snapshots) - 2)
    /\ na_result.value # B(na_snapshots, SmallestT(na_n, na_snapshots) - 1)
    /\ na_result.value = RevolveByBinomials(na_n, na_snapshots)

\* C14: for 1 < snapshots < n - 1 the step of trajectory "maximum" is at
\* least the step of trajectory "revolve" for the same arguments and at most
\* B(snapshots, t - 1), t the smallest integer >= 2 with B(snapshots, t) >= n.
C14_MaximumBounds ==
    (/\ na_pc # "call"
     /\ na_trajectory = "maximum"
     /\ 1 < na_snapshots
     /\ na_snapshots < na_n - 1) =>
        /\ na_pc = "returned"
        /\ na_result.value >= n_advance(na_n, na_snapshots, "revolve").value
        /\ na_result.value
              <= B(na_snapshots, SmallestT(na_n, na_snapshots) - 1)

\* a call where "maximum" steps further than "revolve"
C14_Witness ==
    /\ na_pc = "returned"
    /\ na_trajectory = "maximum"
    /\ 1 < na_snapshots
    /\ na_snapshots < na_n - 1
    /\ na_result.value > n_advance(na_n, na_snapshots, "revolve").value
    /\ na_result.value < B(na_snapshots, SmallestT(na_n, na_snapshots) - 1)

\* the constructor went through allocate_snapshots
Allocated == ~dry_run /\ req_in_ram > 0 /\ req_on_disk > 0
\* the slots of a tier
SlotsOf(tier) == {i \in DOMAIN storage : storage[i] = tier}

\* C15: with RAM and disk snapshots allocate_snapshots marks exactly
\* snapshots_in_ram slots "RAM" and the others "disk"; the RAM slots are the
\* slots of largest weight, equal weights going to the lower slot index, so
\* that with all weights equal the RAM slots are 0 .. snapshots_in_ram - 1.
C15_AllocationByWeight ==
    Allocated =>
        /\ DOMAIN storage = 0 .. req_in_ram + req_on_disk - 1
        /\ DOMAIN weights = DOMAIN storage
        /\ snapshots_in_ram = req_in_ram
        /\ Cardinality(SlotsOf("RAM")) = snapshots_in_ram
        /\ SlotsOf("disk") = DOMAIN storage \ SlotsOf("RAM")
        /\ \A i \in SlotsOf("RAM"), j \in SlotsOf("disk") :
              \/ weights[i] > weights[j]
              \/ weights[i] = weights[j] /\ i < j
        /\ (\A i, j \in DOMAIN weights : weights[i] = weights[j]) =>
              SlotsOf("RAM") = 0 .. snapshots_in_ram - 1

\* a RAM slot above a disk slot, and a tie between a RAM and a disk slot
C15_Witness ==
    /\ Allocated
    /\ \E i \in SlotsOf("RAM"), j \in SlotsOf("disk") : i > j
    /\ \E i \in SlotsOf("RAM"), j \in SlotsOf("disk") :
          weights[i] = weights[j]

\* every Read names the tier of the latest Write of the same step
ReadsMatchWrites ==
    \A i \in Positions("Read") :
        LET W == {j \in Positions("Write") :
                      j < i /\ emitted[j][2] = emitted[i][2]}
        IN  /\ W # {}
            /\ emitted[SetMax(W)][3] = emitted[i][3]

\* C16: the slot-to-tier mapping of a schedule does not change once it is
\* constructed, and the tier of every Read is the tier of the Write that
\* stored the snapshot read.
C16_TierFixed ==
    /\ [](ReadsMatchWrites)
    /\ [][dry_run' = dry_run => storage' = storage]_vars

\* a snapshot read back from disk and one read back from RAM
C16_Witness ==
    /\ Allocated
    /\ \E i, j \in Positions("Read") :
          emitted[i][3] = "disk" /\ emitted[j][3] = "RAM"
    /\ Emitted("EndReverse")

\* snapshots of a tier the driver holds after the actions emitted
HeldIn(tier) ==
    Len(SelectSeq(emitted, LAMBDA a : a[1] = "Write" /\ a[3] = tier))
    - Len(SelectSeq(DeletingReads(emitted), LAMBDA a : a[3] = tier))

\* C17: after any prefix of the action sequence the RAM snapshots held are
\* at most snapshots_in_ram and the disk snapshots held at most
\* snapshots_on_disk.
C17_TierWithinCapacity ==
    /\ HeldIn("RAM") <= snapshots_in_ram
    /\ HeldIn("disk") <= snapshots_on_disk
    /\ Cardinality({i \in 1 .. Len(snapshots) : storage[i - 1] = "RAM"})
          <= snapshots_in_ram
    /\ Cardinality({i \in 1 .. Len(snapshots) : storage[i - 1] = "disk"})
          <= snapshots_on_disk

\* both tiers full
C17_Witness ==
    /\ Allocated
    /\ HeldIn("RAM") = snapshots_in_ram
    /\ HeldIn("disk") = snapshots_on_disk
    /\ snapshots_in_ram >= 2
    /\ snapshots_on_disk >= 2

\* C18: is_exhausted() is false until EndReverse is emitted and true from
\* then on; EndReverse is emitted once, as EndReverse(True), and no action
\* of the schedule follows it.
C18_Exhausted ==
    /\ [](/\ exhausted = (Count("EndReverse") > 0)
          /\ \A i \in Positions("EndReverse") :
                i = Len(emitted) /\ emitted[i] = EndReverse(TRUE))
    /\ [][exhausted => (dry_run /\ ~dry_run' /\ emitted' = << >>)]_vars

\* a schedule run to its end
C18_Witness ==
    /\ ~dry_run
    /\ exhausted
    /\ Emitted("EndReverse")
    /\ Count("Reverse") = max_n
    /\ max_n >= 3

\* C19: a TwoLevelCheckpointSchedule constructed with disk_period < 1, or
\* with a binomial_storage other than "RAM" and "disk", raises an error in the
\* constructor: there is no schedule object, and no action is ever produced.
C19_InvalidTwoLevelArguments ==
    (req_period < 1 \/ req_storage \notin {"RAM", "disk"}) =>
        /\ pc = "error"
        /\ exc = "ValueError"
        /\ period = None
        /\ binomial_storage = "None"
        /\ max_n = None
        /\ emitted = << >>

\* a constructor call with a period of no step
C19_Witness ==
    /\ req_period = 0
    /\ req_storage = "disk"
    /\ pc = "error"
    /\ exc = "ValueError"

\* C20: a schedule constructed with a trajectory other than "maximum" and
\* "revolve" is refused by the constructor: the constructor raises, so that
\* no schedule with such a trajectory exists and none produces an action.
C20_UnknownTrajectoryRejected ==
    (~dry_run /\ trajectory \notin Trajectories) =>
        /\ pc = "error"
        /\ exc = "ValueError"
        /\ emitted = << >>

\* C21: a MultistageCheckpointSchedule constructed with max_n > 1 and no
\* snapshot at all is refused by the constructor: the constructor raises, so
\* that no such schedule exists and none produces an action.
C21_NoSnapshotRejected ==
    (~dry_run /\ max_n > 1 /\ req_in_ram + req_on_disk = 0) =>
        /\ pc = "error"
        /\ exc = "ValueError"
        /\ emitted = << >>

\* ------------------------------------------------------------------ the reverse sweeps of a TwoLevelCheckpointSchedule

\* the position of the k-th action of a kind
NthPosition(kind, k) ==
    CHOOSE i \in Positions(kind) :
        Cardinality({j \in Positions(kind) : j <= i}) = k
\* the reverse sweeps begun: the k-th begins after EndForward (k = 1) or
\* after the (k - 1)-th EndReverse
SweepsBegun ==
    IF Count("EndForward") = 0 THEN 0
    ELSE IF Len(emitted) > NthPosition("EndForward", 1)
            /\ ~Emitted("EndReverse")
    THEN Count("EndReverse") + 1
    ELSE Count("EndReverse")
SweepComplete(k) == k <= Count("EndReverse")
\* the actions of the k-th reverse sweep emitted so far, its EndReverse
\* included
Sweep(k) ==
    SubSeq(emitted,
           (IF k = 1 THEN NthPosition("EndForward", 1)
            ELSE NthPosition("EndReverse", k - 1)) + 1,
           IF SweepComplete(k) THEN NthPosition("EndReverse", k)
           ELSE Len(emitted))
\* the Reads of the snapshots at the first step of a period
PeriodReads(seq) ==
    SelectSeq(seq, LAMBDA a : a[1] = "Read" /\ a[2] % period = 0)
\* the first steps of the periods of max_n steps
PeriodStarts == {j * period : j \in 0 .. (max_n - 1) \div period}
\* a TwoLevelCheckpointSchedule whose forward calculation has ended
Finalized == period # None /\ max_n # None

\* the actions below are stated for the action emitted last: every prefix of
\* the actions of a schedule is the value of emitted in an earlier state
Last == emitted[Len(emitted)]

\* C22: in a TwoLevelCheckpointSchedule finalized after m full periods each
\* reverse sweep reads the disk snapshots of the m period starts 0,
\* disk_period, ..., (m - 1) * disk_period, as Read(step, "disk", False), the
\* later period first, and reads no period snapshot at another step; these
\* are the steps written in the forward sweep.
C22_PeriodSnapshotsRestored ==
    (Finalized /\ max_n % period = 0) =>
        /\ PeriodStarts = {j * period : j \in 0 .. max_n \div period - 1}
        /\ Emitted("EndForward") =>
              {emitted[i][2] : i \in Positions("Write")} = PeriodStarts
        /\ (Emitted("Read")
            /\ (Last[2] % period = 0
                \/ (Last[3] = "disk" /\ binomial_storage = "RAM"))) =>
              LET reads == PeriodReads(Sweep(SweepsBegun))
              IN  /\ Last = Read(Last[2], "disk", FALSE)
                  /\ Last[2] \in PeriodStarts
                  /\ Last[2] < max_n
                  /\ \A i \in 1 .. Len(reads) : reads[i][2] >= Last[2]
        /\ Emitted("EndReverse") =>
              LET reads == PeriodReads(Sweep(Count("EndReverse")))
              IN  {reads[i][2] : i \in 1 .. Len(reads)} = PeriodStarts

\* three full periods read back in a second sweep, with inner snapshots in RAM
C22_Witness ==
    /\ Finalized
    /\ period = 2
    /\ max_n = 6
    /\ binomial_storage = "RAM"
    /\ Emitted("EndReverse")
    /\ SweepComplete(2)
    /\ Len(PeriodReads(Sweep(2))) > 3
    /\ {a[2] : a \in {Sweep(2)[i] : i \in 1 .. Len(Sweep(2))}
                    \cap {Read(s, "disk", FALSE) : s \in 0 .. max_n}}
          = {0, 2, 4}

\* C23: in a TwoLevelCheckpointSchedule every reverse sweep after the first
\* emits the action sequence of the first reverse sweep (the actions after
\* EndForward up to the first EndReverse).
C23_SweepsIdentical ==
    (Finalized /\ Emitted("EndReverse") /\ Count("EndReverse") >= 2) =>
        Sweep(Count("EndReverse")) = Sweep(1)

\* a second sweep with recomputations and inner snapshots, complete
C23_Witness ==
    /\ Finalized
    /\ Emitted("EndReverse")
    /\ Count("EndReverse") = 2
    /\ Sweep(2) = Sweep(1)
    /\ \E i \in 1 .. Len(Sweep(2)) : Sweep(2)[i][1] = "Write"
    /\ max_n >= 5

\* C24: in a TwoLevelCheckpointSchedule every reverse sweep ends with r set
\* to 0 and EndReverse(False); EndReverse(True) is never emitted,
\* is_exhausted() is False in every state, and after an EndReverse the
\* schedule has a next action.
C24_NeverExhausted ==
    period # None =>
        /\ exhausted = FALSE
        /\ Emitted("EndReverse") =>
              /\ Last = EndReverse(FALSE)
              /\ pc = "tl_EndReverse"
              /\ r = 0
              /\ r < max_n
              /\ Sweeps < MaxSweeps => ENABLED TlReverseLoop

\* a second sweep begun after the first EndReverse
C24_Witness ==
    /\ period # None
    /\ Count("EndReverse") = 1
    /\ emitted[NthPosition("EndReverse", 1)] = EndReverse(FALSE)
    /\ SweepsBegun = 2
    /\ Emitted("Reverse")
    /\ r = 1

\* inner snapshots the driver holds: written in a reverse sweep and not yet
\* read with delete = true
HeldInner ==
    Cardinality({i \in Positions("Write") :
                    \E j \in Positions("EndForward") : j < i})
    - Len(DeletingReads(emitted))

\* C25: in a reverse sweep of a TwoLevelCheckpointSchedule the snapshot stack
\* of a period never holds more than binomial_snapshots + 1 entries, at most
\* binomial_snapshots inner snapshots are held at once, and the stack is
\* empty when the reverse steps of the period are done; the checks of
\* these in iter() never fail.
C25_PeriodStackBounded ==
    period # None =>
        /\ Len(snapshots) <= binomial_snapshots + 1
        /\ \A i \in 1 .. Len(snapshots) : snapshots[i] = n0s <=> i = 1
        /\ LET inner == HeldInner
           IN  /\ inner >= 0
               /\ inner <= binomial_snapshots
               /\ pc # "error" =>
                     inner = Cardinality({i \in 1 .. Len(snapshots) :
                                             snapshots[i] # n0s})
        /\ (pc = "tl_adj_Clear" /\ r = max_n - n0s) => snapshots = << >>
        /\ pc = "tl_EndReverse" => snapshots = << >>
        /\ exc # "RuntimeError"

\* a period's stack full: its disk snapshot and two inner snapshots
C25_Witness ==
    /\ period # None
    /\ binomial_snapshots = 2
    /\ Len(snapshots) = 3
    /\ HeldInner = 2
    /\ pc = "tl_rewrite_Write"

\* a TwoLevelCheckpointSchedule with a trajectory n_advance knows
ValidTwoLevel == period # None /\ trajectory \in Trajectories

\* C26: for every disk_period >= 1, binomial_snapshots >= 0, either
\* trajectory and every max_n >= 1 fixed by finalize, a multiple of
\* disk_period or not, no step of a TwoLevelCheckpointSchedule raises; the
\* k-th Reverse of a reverse sweep is Reverse(max_n - k + 1, max_n - k); a
\* sweep emits max_n of them before its EndReverse; and each sweep begun
\* reaches its EndReverse.
C26_SweepReversesAll ==
    /\ [](ValidTwoLevel =>
            /\ pc # "error"
            /\ exc = "none"
            /\ max_n # None => max_n >= 1
            /\ Emitted("Reverse") =>
                  /\ r \in 1 .. max_n
                  /\ Last = Reverse(max_n - r + 1, max_n - r)
                  /\ Len(OfKind(Sweep(SweepsBegun), "Reverse")) = r
            /\ Emitted("EndReverse") =>
                  Len(OfKind(Sweep(Count("EndReverse")), "Reverse")) = max_n)
    /\ (ValidTwoLevel /\ pc = "tl_EndForward")
          ~> (pc = "tl_EndReverse" /\ Sweeps = MaxSweeps)

\* a sweep over a whole period and a partial last period, complete
C26_Witness ==
    /\ ValidTwoLevel
    /\ Emitted("EndReverse")
    /\ period = 5
    /\ max_n = 7
    /\ binomial_snapshots = 1
    /\ Count("Reverse") = 2 * max_n

\* the action emitted before the last
Previous == emitted[Len(emitted) - 1]

\* C27 as stated: in both schedules the action directly before Write(n, tier)
\* is Forward(n0, n) with n0 < n, a Forward that ended at n.
C27_WriteAfterForwardEndingThere ==
    Emitted("Write") =>
        /\ Len(emitted) >= 2
        /\ Previous[1] = "Forward"
        /\ Previous[3] = Last[2]
        /\ Previous[2] < Last[2]

\* C27, amended: in both schedules the action directly before Write(n, tier)
\* is Forward(n, n1) with n1 > n, a Forward that started at n.
C27_WriteAfterForwardFromThere ==
    Emitted("Write") =>
        /\ Len(emitted) >= 2
        /\ Previous[1] = "Forward"
        /\ Previous[2] = Last[2]
        /\ Previous[3] > Last[2]

\* an inner snapshot written in a reverse sweep of a TwoLevelCheckpointSchedule
C27_Witness ==
    /\ period # None
    /\ Emitted("Write")
    /\ Count("EndForward") = 1
    /\ Last[2] > n0s
    /\ Previous = Forward(Last[2], n)

\* the generator of a MultistageCheckpointSchedule is in its forward phase,
\* EndForward being the last action it can have emitted
InForwardPhase ==
    pc \in {"start", "fwd_Configure", "fwd_Forward", "fwd_Write", "fwd_Clear",
            "last_Configure", "last_Forward", "EndForward"}
\* the cursor before the g-th group of four actions (g = 0, 1, ...): where
\* the Forward of the group before ended
CursorBefore(g) == IF g = 0 THEN 0 ELSE emitted[4 * (g - 1) + 2][3]

\* C28: up to EndForward a MultistageCheckpointSchedule emits, while the
\* cursor is below max_n - 1, groups of the four actions Configure(True,
\* False), Forward(n0, n1), Write(n0, tier), Clear(True, True), n0 the cursor
\* before the run, n1 - n0 the step of n_advance for the slots still free and
\* tier the tier of the slot the snapshot goes to; with the cursor at
\* max_n - 1 it emits Configure(., True), Forward(max_n - 1, max_n),
\* EndForward.
C28_ForwardPhaseGroups ==
    InForwardPhase =>
        \A i \in 1 .. Len(emitted) :
            LET g == (i - 1) \div 4
                o == (i - 1) % 4
                c == CursorBefore(g)
                run == emitted[4 * g + 1] = Configure(TRUE, FALSE)
                a == emitted[i]
            IN  /\ o = 0 =>
                      \/ a = Configure(TRUE, FALSE) /\ c < max_n - 1
                      \/ /\ a = Configure(keep_block_0_ics /\ c = 0, TRUE)
                         /\ c = max_n - 1
                /\ (o = 1 /\ run) =>
                      /\ a = Forward(c, a[3])
                      /\ c < a[3]
                      /\ a[3] <= max_n - 1
                      /\ a[3] - c
                            = n_advance(max_n - c, Capacity - g,
                                        trajectory).value
                /\ (o = 2 /\ run) => a = Write(c, storage[g])
                /\ (o = 3 /\ run) => a = Clear(TRUE, TRUE)
                /\ (o = 1 /\ ~run) => a = Forward(max_n - 1, max_n)
                /\ (o = 2 /\ ~run) => a = EndForward /\ i = Len(emitted)
                /\ (o = 3) => run

\* three runs with snapshots on both tiers, then the step to max_n
C28_Witness ==
    /\ ~dry_run
    /\ pc = "EndForward"
    /\ Len(emitted) = 4 * 3 + 3
    /\ emitted[3][3] # emitted[7][3]
    /\ n = max_n

\* the generator of a MultistageCheckpointSchedule is inside its reverse
\* loop "while self._r < self._max_n"
InReverseLoop ==
    pc \in {"Read_delete", "Read_delete_Clear", "Read_keep",
            "Read_keep_Clear", "rerun_Configure", "rerun_Forward",
            "rerun_Clear", "rewrite_Configure", "rewrite_Forward",
            "rewrite_Write", "rewrite_Clear", "adj_Configure", "adj_Forward",
            "adj_Reverse", "adj_Clear"}
\* the action emitted k actions before the last
Back(k) == emitted[Len(emitted) - k]
IsRead(a, delete) == a[1] = "Read" /\ a[4] = delete

\* C29: in the reverse loop of a MultistageCheckpointSchedule the snapshot on
\* top of the stack is read with delete = true, and popped, exactly when its
\* step is max_n - r - 1; then Clear, Configure(., True), the Forward of one
\* step and the Reverse follow, with no other Forward.  Otherwise it is read
\* with delete = false and stays on top of the stack; Clear,
\* Configure(False, False), a Forward from its step and a Clear follow, with
\* no Write; then runs Configure(True, False), Forward, Write, Clear follow
\* while the cursor is below max_n - r - 1, and Configure(., True) once it is
\* there.
C29_ReverseLoopReads ==
    InReverseLoop =>
        LET a == Last
            needed == max_n - r - 1
        IN  /\ a[1] = "Read" =>
                  /\ Back(1)[1] = "Clear"
                  /\ Back(2)[1] = "Reverse"
                  /\ a[4] <=> a[2] = needed
                  /\ a[2] <= needed
                  /\ n = a[2]
                  /\ a[4] =>
                        \A i \in 1 .. Len(snapshots) : snapshots[i] < a[2]
                  /\ ~a[4] =>
                        /\ Len(snapshots) > 0
                        /\ snapshots[Len(snapshots)] = a[2]
            /\ a[1] = "Clear" =>
                  /\ Back(1)[1] \in {"Read", "Forward", "Write", "Reverse"}
                  /\ Back(1)[1] = "Forward" =>
                        Back(2) = Configure(FALSE, FALSE)
            /\ a = Configure(FALSE, FALSE) =>
                  /\ Back(1) = Clear(TRUE, TRUE)
                  /\ IsRead(Back(2), FALSE)
            /\ a = Configure(TRUE, FALSE) =>
                  /\ Back(1) = Clear(TRUE, TRUE)
                  /\ \/ Back(2)[1] = "Write"
                     \/ /\ Back(2)[1] = "Forward"
                        /\ Back(3) = Configure(FALSE, FALSE)
                  /\ n < needed
            /\ (a[1] = "Configure" /\ a[3]) =>
                  /\ Back(1) = Clear(TRUE, TRUE)
                  /\ \/ IsRead(Back(2), TRUE)
                     \/ Back(2)[1] = "Write"
                     \/ /\ Back(2)[1] = "Forward"
                        /\ Back(3) = Configure(FALSE, FALSE)
                  /\ n = needed
            /\ a[1] = "Forward" =>
                  /\ Back(1)[1] = "Configure"
                  /\ a[2] < a[3]
                  /\ n = a[3]
                  /\ Back(1) = Configure(FALSE, FALSE) =>
                        /\ a[2] = Back(3)[2]
                        /\ a[3] <= needed
                  /\ Back(1) = Configure(TRUE, FALSE) =>
                        /\ a[2] = IF Back(3)[1] = "Write"
                                  THEN Back(4)[3] ELSE Back(3)[3]
                        /\ a[3] <= needed
                  /\ Back(1)[3] => a = Forward(needed, needed + 1)
            /\ a[1] = "Write" =>
                  /\ Back(1)[1] = "Forward"
                  /\ Back(2) = Configure(TRUE, FALSE)
                  /\ a[2] = Back(1)[2]
                  /\ snapshots[Len(snapshots)] = a[2]
            /\ a[1] = "Reverse" =>
                  /\ a = Reverse(needed + 2, needed + 1)
                  /\ Back(1) = Forward(needed + 1, needed + 2)
                  /\ Back(2)[1] = "Configure" /\ Back(2)[3]
            /\ a[1] \in {"Read", "Clear", "Configure", "Forward", "Write",
                         "Reverse"}

\* two runs that write a snapshot after a Read with delete = false and its
\* run without a Write, the cursor then at max_n - r - 1
C29_Witness ==
    /\ ~dry_run
    /\ pc = "adj_Configure"
    /\ Len(emitted) > 16
    /\ Back(2)[1] = "Write"
    /\ Back(6)[1] = "Write"
    /\ Back(10)[1] = "Forward"
    /\ Back(11) = Configure(FALSE, FALSE)
    /\ IsRead(Back(13), FALSE)


\* the action emitted last is the first Forward after a Read with
\* delete = false of a MultistageCheckpointSchedule
AfterFirstRecomputation ==
    /\ InReverseLoop
    /\ Last[1] = "Forward"
    /\ Back(1) = Configure(FALSE, FALSE)
    /\ IsRead(Back(3), FALSE)
\* that Forward runs from the step of the snapshot read, still on top of the
\* stack, over n_advance(max_n - r - n, k) steps
FirstRecomputationWith(k) ==
    LET adv == n_advance(max_n - r - Last[2], k, trajectory)
    IN  /\ Last[2] = Back(3)[2]
        /\ snapshots[Len(snapshots)] = Last[2]
        /\ adv.exc = "none"
        /\ Last[3] - Last[2] = adv.value

\* C30 as the claim states it: after a Read with delete = false the first
\* recomputation Forward has length n_advance(max_n - r - n, k) with k the
\* number of free slots, capacity minus the current stack size.
C30_BudgetIsFreeSlots ==
    AfterFirstRecomputation =>
        FirstRecomputationWith(Capacity - Len(snapshots))

\* C30: after a Read with delete = false the first recomputation Forward has
\* length n_advance(max_n - r - n, k) with k the number of free slots plus
\* one, capacity minus the current stack size plus one: the slot of the
\* snapshot just read, the top of the stack, is counted, so k is the budget
\* that was available when that snapshot was written.
C30_BudgetCountsReadSlot ==
    AfterFirstRecomputation =>
        FirstRecomputationWith(Capacity - Len(snapshots) + 1)

\* a first recomputation whose length differs between the two budgets, with
\* a free slot left
C30_Witness ==
    /\ ~dry_run
    /\ AfterFirstRecomputation
    /\ Len(snapshots) < Capacity
    /\ LET adv == n_advance(max_n - r - Last[2], Capacity - Len(snapshots),
                            trajectory)
       IN  adv.exc = "none" /\ adv.value # Last[3] - Last[2]


\* C31: in both schedules the action directly before every Forward is a
\* Configure: no Forward directly follows a Forward, and no Read, Write,
\* Clear, Reverse, EndForward or EndReverse stands between a Configure and
\* its Forward.
C31_ForwardAfterConfigure ==
    Emitted("Forward") => Len(emitted) >= 2 /\ Previous[1] = "Configure"

\* the Forward that re-runs from a snapshot read and kept
C31_Witness ==
    /\ ~dry_run
    /\ pc = "rerun_Forward"
    /\ Emitted("Forward")
    /\ Previous = Configure(FALSE, FALSE)

\* C32: in both schedules the actions before Reverse(n, n - 1) are
\* Configure(store_ics, True), Forward(n - 1, n) and at most an EndForward,
\* with store_ics true exactly when keep_block_0_ics is set and n - 1 = 0;
\* and a Forward under Configure(., True) is followed by nothing but that
\* Reverse, or EndForward and that Reverse.
C32_ReverseAfterStoredForward ==
    /\ Emitted("Reverse") =>
          LET k == IF Previous = EndForward THEN 1 ELSE 0
              m == Last[2]
          IN  /\ Len(emitted) >= 3 + k
              /\ Last = Reverse(m, m - 1)
              /\ Back(1 + k) = Forward(m - 1, m)
              /\ Back(2 + k) = Configure(keep_block_0_ics /\ m - 1 = 0, TRUE)
    /\ (/\ Len(emitted) >= 3
        /\ Back(1)[1] = "Forward"
        /\ Back(2)[1] = "Configure"
        /\ Back(2)[3]) =>
          \/ Last = Reverse(Back(1)[3], Back(1)[2])
          \/ Last = EndForward
    /\ (/\ Len(emitted) >= 4
        /\ Back(1) = EndForward
        /\ Back(3)[1] = "Configure"
        /\ Back(3)[3]) =>
          Last = Reverse(Back(2)[3], Back(2)[2])

\* Reverse(1, 0) of a two-level schedule that keeps the initial conditions
\* of block 0, in its second reverse sweep
C32_Witness ==
    /\ pc = "tl_adj_Reverse"
    /\ keep_block_0_ics
    /\ Last = Reverse(1, 0)
    /\ Back(2) = Configure(TRUE, TRUE)
    /\ Sweeps = 1
    /\ max_n > 2

\* C33: in both schedules the action directly after every Reverse is
\* Clear(clear_ics, True), with clear_ics false exactly when keep_block_0_ics
\* is set and the Reverse was Reverse(1, 0); every other Clear is
\* Clear(True, True); without keep_block_0_ics every Clear is
\* Clear(True, True).
C33_ClearAfterReverse ==
    /\ (Len(emitted) >= 2 /\ Previous[1] = "Reverse") =>
          Last = Clear(~(keep_block_0_ics /\ Previous = Reverse(1, 0)), TRUE)
    /\ (Emitted("Clear") /\ Len(emitted) >= 2 /\ Previous[1] # "Reverse") =>
          Last = Clear(TRUE, TRUE)
    /\ Emitted("Clear") => Len(emitted) >= 2
    /\ (Emitted("Clear") /\ ~keep_block_0_ics) => Last = Clear(TRUE, TRUE)

\* the Clear after Reverse(1, 0) of a multistage schedule that keeps the
\* initial conditions of block 0
C33_Witness ==
    /\ ~dry_run
    /\ pc = "adj_Clear"
    /\ Previous = Reverse(1, 0)
    /\ Last = Clear(FALSE, TRUE)
    /\ max_n > 2


\* the step the driver is at after the first k actions emitted: the step of
\* the Read, or the end of the Forward, emitted last among them, 0 without
\* either
PositionAfter(k) ==
    LET P == {i \in 1 .. k : emitted[i][1] \in {"Read", "Forward"}}
    IN  IF P = {} THEN 0
        ELSE LET a == emitted[SetMax(P)]
             IN  IF a[1] = "Read" THEN a[2] ELSE a[3]

\* C34: in a MultistageCheckpointSchedule every Forward(n0, n1) has
\* 0 <= n0 < n1 <= max_n - r, r the number of Reverse actions so far, and n0
\* is the step the driver is at: that of the most recent Read if one was
\* emitted since the previous Forward, else the n1 of the previous Forward,
\* 0 for the first Forward.  The cursor n is that step in every state, so it
\* decreases only at a Read, and every Read names a step strictly below the
\* cursor before it.
C34_ForwardFromCursor ==
    (pc # "error" \/ Len(emitted) > 0) =>
        /\ n = PositionAfter(Len(emitted))
        /\ Emitted("Forward") =>
              /\ 0 <= Last[2]
              /\ Last[2] < Last[3]
              /\ Last[3] <= max_n - Count("Reverse")
              /\ Last[2] = PositionAfter(Len(emitted) - 1)
        /\ Emitted("Read") => Last[2] < PositionAfter(Len(emitted) - 1)

\* the single step run from a snapshot just read and deleted, after two
\* adjoint steps
C34_Witness ==
    /\ ~dry_run
    /\ pc = "adj_Forward"
    /\ IsRead(Back(3), TRUE)
    /\ Last[2] = Back(3)[2]
    /\ r >= 2
    /\ Last[2] > 0


\* the dry run of allocate_snapshots consumes the action the schedule yields
\* in this step
DryRunConsumes(kind) ==
    /\ dry_run
    /\ Len(emitted') = Len(emitted) + 1
    /\ emitted'[Len(emitted')][1] = kind
\* weights after adding w at slot i, an index of weights
WeightAdded(i, w) ==
    /\ i \in DOMAIN weights
    /\ weights' = [weights EXCEPT ![i] = @ + w]

\* C35: in the dry run of allocate_snapshots each Write adds write_weight to
\* the slot at stack size - 1 just after the Write, and each Read adds
\* read_weight, and delete_weight when it deletes, to the slot of the top of
\* the stack at the Read; the slot is always in 0 .. snapshots - 1, no other
\* action changes a weight, the tracked index snapshot_i is the index of the
\* top of the stack, and it is -1 when EndReverse is reached.
C35_WeightsByStackPosition ==
    /\ [](dry_run /\ pc # "error" =>
            /\ snapshot_i = Len(snapshots) - 1
            /\ snapshot_i < req_in_ram + req_on_disk
            /\ DOMAIN weights = 0 .. req_in_ram + req_on_disk - 1
            /\ Emitted("EndReverse") => snapshot_i = -1)
    /\ [][/\ DryRunConsumes("Write") =>
                WeightAdded(Len(snapshots') - 1, write_weight)
          /\ DryRunConsumes("Read") =>
                WeightAdded(Len(snapshots) - 1,
                            read_weight
                            + (IF emitted'[Len(emitted')][4]
                               THEN delete_weight ELSE 0))
          /\ (/\ dry_run
              /\ ~DryRunConsumes("Write")
              /\ ~DryRunConsumes("Read")) => weights' = weights]_vars

\* the dry run read a snapshot and kept it, below a second snapshot's slot
\* that has been written twice
C35_Witness ==
    /\ dry_run
    /\ pc = "Read_keep"
    /\ snapshot_i = 0
    /\ Cardinality(DOMAIN weights) >= 2
    /\ weights[1] >= 2
    /\ weights[0] >= 2


\* the arguments (n, snapshots) of the call of n_advance the generator of a
\* MultistageCheckpointSchedule makes next, when it is suspended at a
\* Configure that precedes one
NextAdvanceCall ==
    IF pc = "fwd_Configure"
    THEN <<max_n - n, Capacity - Len(snapshots)>>
    ELSE IF pc = "rerun_Configure"
    THEN <<max_n - r - n, Capacity - Len(snapshots) + 1>>
    ELSE <<max_n - r - n, Capacity - Len(snapshots)>>

\* C36: in a MultistageCheckpointSchedule with capacity >= 1 the steps on the
\* snapshot stack increase strictly from bottom to top in every state; at the
\* head of every iteration of the reverse loop the stack is not empty and its
\* top is at most max_n - r - 1; every call of n_advance has n >= 2 and
\* snapshots >= 1; and the assertion n1 > n0 never fails.
C36_StackIncreasing ==
    Capacity >= 1 =>
        /\ \A i \in 1 .. Len(snapshots) - 1 : snapshots[i] < snapshots[i + 1]
        /\ (pc \in {"first_Clear", "adj_Clear"} /\ r < max_n) =>
              /\ Len(snapshots) > 0
              /\ snapshots[Len(snapshots)] <= max_n - r - 1
        /\ pc \in {"fwd_Configure", "rerun_Configure", "rewrite_Configure"} =>
              /\ NextAdvanceCall[1] >= 2
              /\ NextAdvanceCall[2] >= 1
        /\ exc # "AssertionError"

\* the reverse loop about to read a snapshot below two others it has
\* already used, with the stack holding three snapshots
C36_Witness ==
    /\ ~dry_run
    /\ pc = "adj_Clear"
    /\ Len(snapshots) = 3
    /\ snapshots[3] < max_n - r - 1
    /\ r >= 2


\* the generator of a TwoLevelCheckpointSchedule has not gone past its
\* yield EndForward()
TlInForwardPhase ==
    pc \in {"tl_fwd_Configure", "tl_fwd_Forward", "tl_fwd_Write",
            "tl_fwd_Clear", "tl_EndForward"}

\* C37: up to EndForward a TwoLevelCheckpointSchedule emits
\* Configure(True, False), Forward(k * P, (k + 1) * P), Write(k * P, "disk"),
\* Clear(True, True) for k = 0, 1, 2, ... with P = disk_period, one disk
\* snapshot per period; EndForward comes only with max_n fixed, and only
\* after the Write and the Clear of the period in which it was fixed.
C37_PeriodsOnDisk ==
    TlInForwardPhase =>
        /\ \A i \in 1 .. Len(emitted) :
              LET k == (i - 1) \div 4
                  o == (i - 1) % 4
                  a == emitted[i]
              IN  /\ o = 0 => \/ a = Configure(TRUE, FALSE)
                              \/ a = EndForward /\ i = Len(emitted) /\ k >= 1
                  /\ o = 1 => a = Forward(k * period, (k + 1) * period)
                  /\ o = 2 => a = Write(k * period, "disk")
                  /\ o = 3 => a = Clear(TRUE, TRUE)
        /\ Emitted("EndForward") => max_n # None
        /\ (max_n = None /\ Len(emitted) > 0) => Last # EndForward
        /\ (max_n # None /\ pc # "tl_EndForward") =>
              pc \in {"tl_fwd_Forward", "tl_fwd_Write", "tl_fwd_Clear"}

\* EndForward after two periods, the second one cut short by finalize
C37_Witness ==
    /\ pc = "tl_EndForward"
    /\ Len(emitted) = 9
    /\ period >= 2
    /\ max_n < 2 * period
    /\ emitted[7] = Write(period, "disk")


\* a step at which a period of a TwoLevelCheckpointSchedule starts
PeriodStart(step) == step % period = 0
\* the Write actions of the forward sweep
ForwardWrites ==
    {i \in Positions("Write") : \A j \in Positions("EndForward") : i < j}

\* C38: a TwoLevelCheckpointSchedule reads the disk snapshot of a period
\* start only as Read(step, "disk", False), so every snapshot written in the
\* forward sweep is still held at every EndReverse; every other snapshot is
\* written and read with the tier binomial_storage at a step strictly inside
\* the period, and has been read with delete = true when the next period
\* snapshot is read and when EndReverse is emitted.
C38_PeriodSnapshotsKept ==
    /\ (Emitted("Read") /\ PeriodStart(Last[2])) =>
          /\ Last = Read(Last[2], "disk", FALSE)
          /\ HeldInner = 0
    /\ (Emitted("Read") /\ ~PeriodStart(Last[2])) =>
          /\ Last[3] = binomial_storage
          /\ \E i \in Positions("Write") \ ForwardWrites :
                emitted[i] = Write(Last[2], binomial_storage)
    /\ (Emitted("Write") /\ Count("EndForward") = 1) =>
          /\ Last = Write(Last[2], binomial_storage)
          /\ ~PeriodStart(Last[2])
          /\ n0s < Last[2]
          /\ Last[2] < n0s + period
    /\ Emitted("EndReverse") =>
          /\ HeldInner = 0
          /\ ForwardWrites # {}
          /\ \A i \in ForwardWrites :
                /\ PeriodStart(emitted[i][2])
                /\ \A j \in Positions("Read") :
                      emitted[j][2] = emitted[i][2] => ~emitted[j][4]

\* the second reverse sweep reads and deletes a snapshot held in RAM inside
\* the second period
C38_Witness ==
    /\ pc = "tl_Read_pop"
    /\ binomial_storage = "RAM"
    /\ Last = Read(Last[2], "RAM", TRUE)
    /\ Last[2] > period
    /\ Sweeps = 1


\* the calls made on the cache since its last clear(): their positions in
\* returned
LastClear ==
    LET C == {i \in DOMAIN returned : returned[i].op = "clear"}
    IN  IF C = {} THEN 0 ELSE SetMax(C)
SinceClear == LastClear + 1 .. Len(returned)
IsRequest(i) == returned[i].op \in {"assemble", "linear_solver"}
\* only assemble, linear_solver and clear have been called
OnlyRequests == \A i \in DOMAIN returned : returned[i].op # "append"
\* the call made last was a request, and the earlier requests since the last
\* clear() that had its key
LastIsRequest == Len(returned) > 0 /\ IsRequest(Len(returned))
EarlierSameKey ==
    {j \in SinceClear : /\ j < Len(returned)
                        /\ returned[j].key = returned[Len(returned)].key}
\* the request made last added exactly one entry, which it returned
AddedOneEntry ==
    LET call == returned[Len(returned)]
    IN  /\ ~call.raised
        /\ call.index = Len(_index)
        /\ _index[call.index] = Len(_cache) - 1
        /\ _cache[Len(_cache)] = call.value
        /\ \A j \in DOMAIN returned :
              j < Len(returned) => returned[j].value # call.value
\* the request made last returned what the request j returned
SameAs(j) ==
    LET call == returned[Len(returned)]
    IN  /\ ~call.raised
        /\ call.index = returned[j].index
        /\ call.value = returned[j].value
        /\ getitem(call.index) = call.value

\* C39 as stated: a request with a key cached since the last clear() returns
\* the same index and the stored object, a request with a new key adds
\* exactly one entry, and the number of stored values is the number of
\* distinct keys requested since the last clear().
C39_OneEntryPerKeyRequested ==
    OnlyRequests =>
        /\ Len(_cache) = Cardinality({returned[i].key : i \in SinceClear})
        /\ LastIsRequest =>
              /\ \A j \in EarlierSameKey : ~returned[j].raised => SameAs(j)
              /\ EarlierSameKey = {} => AddedOneEntry

\* C39, amended: a request with a key cached since the last clear() returns
\* the same index and the stored object; a request with a key not cached
\* either raises CacheException, only in assemble, and stores nothing, or
\* adds exactly one entry; the number of stored values, and of keys, is the
\* number of distinct keys of the requests since the last clear() that did
\* not raise.
C39_OneEntryPerKeyStored ==
    OnlyRequests =>
        LET stored == {i \in SinceClear : ~returned[i].raised}
        IN  /\ Len(_cache) = Cardinality({returned[i].key : i \in stored})
            /\ Len(_keys) = Len(_cache)
            /\ LastIsRequest =>
                  LET call == returned[Len(returned)]
                  IN  /\ \A j \in EarlierSameKey :
                            IF returned[j].raised THEN call.raised
                            ELSE SameAs(j)
                      /\ (EarlierSameKey = {} /\ ~call.raised) =>
                            AddedOneEntry
                      /\ call.raised => cache_class = "AssemblyCache"

\* a request served from the cache after a request that raised
C39_Witness ==
    /\ OnlyRequests
    /\ Len(returned) = 3
    /\ returned[2].raised
    /\ ~returned[1].raised
    /\ returned[3].key = returned[1].key
    /\ returned[3].index = returned[1].index
    /\ Len(_cache) = 1


\* the calls that returned a CacheIndex
ReturnedIndex == {i \in DOMAIN returned : returned[i].index # None}
\* the calls that created the CacheIndex they returned
CreatedIndex ==
    {i \in ReturnedIndex :
        \A j \in ReturnedIndex : j < i => returned[j].index # returned[i].index}

\* C40: the CacheIndex a call returned resolves to the value of that call
\* after any number of later appends while clear() has not been called; after
\* clear() every CacheIndex returned before it has index() None, the cache
\* holds no keys and no values, and the indices of later appends start again
\* from 0.
C40_IndexValidUntilClear ==
    /\ \A i \in ReturnedIndex :
          LET index == returned[i].index
          IN  IF i > LastClear
              THEN /\ _index[index] # None
                   /\ _index[index] < Len(_cache)
                   /\ getitem(index) = returned[i].value
              ELSE _index[index] = None
    /\ (Len(returned) > 0 /\ returned[Len(returned)].op = "clear") =>
          _keys = << >> /\ _cache = << >>
    /\ \A i \in CreatedIndex \cap SinceClear :
          _index[returned[i].index]
              = Cardinality({j \in CreatedIndex \cap SinceClear : j < i})

====
